---- MODULE Spec2Model ----
(***************************************************************************)
(* AdClickGuard: countdown detection (CountdownWatcher, two variants) and  *)
(* ad overlay management, modelled as state machines over a small page.    *)
(*                                                                         *)
(*   SpecCW  src/countdownWatcher.js   (observer-driven CountdownWatcher)  *)
(*   SpecBT  src/unnamed/part_000      (button-triggered CountdownWatcher) *)
(*   SpecCS  src/unnamed/part_002      (content script: ad overlays)       *)
(*   SpecOM  src/adDetection.js        (overlay manager; the variant with  *)
(*           src/unnamed/part_003       anchor resolution)                 *)
(*   SpecCL  src/adDetection.js        (classifier and confidence score)   *)
(*   SpecCA  src/adDetection.js        (createAdOverlay over any page)     *)
(*   SpecOMFair                        (SpecOM with timers that fire)      *)
(*   SpecFA  src/unnamed/part_003      (findAdAnchorElement, one call)     *)
(*   SpecEX  src/countdownWatcher.js   (extractNumericValue, one call)     *)
(*                                                                         *)
(* The event loop is single threaded: every action is one whole handler    *)
(* (a callback, a timer firing, a public method call) or one change the    *)
(* page makes to the DOM between handlers.                                 *)
(***************************************************************************)
EXTENDS Integers, Sequences, FiniteSets, TLC

(***************************************************************************)
(* The page: a flat set of elements, each with one text node.              *)
(***************************************************************************)
Elems == {"e1", "e2"}
NoElem == "null"

\* bounds of the model
MaxQueue == 2      \* mutation records waiting in an observer's record queue
MaxPending == 1    \* pending anonymous timeouts of one kind per element

\* JavaScript null, for an extracted numeric value
null == -1

\* text contents: the empty string, a text without digits, a decimal number
\* "a", a clock "a:bb"
Text(k, a, b) == [k |-> k, a |-> a, b |-> b]
EmptyText == Text("empty", 0, 0)
WordText == Text("word", 0, 0)
NumText(n) == Text("num", n, 0)
ClockText(m, s) == Text("clock", m, s)

\* what the page writes into its elements
PageTexts == {WordText, NumText(14), NumText(16), NumText(17), NumText(18),
              ClockText(2, 30), ClockText(1, 30), NumText(45)}

EmptyMap == [x \in {} |-> 0]
MapPut(m, k, v) == [x \in (DOMAIN m) \cup {k} |-> IF x = k THEN v ELSE m[x]]
MapDel(m, k) == [x \in (DOMAIN m) \ {k} |-> m[x]]

VARIABLES
    cw,        \* the CountdownWatcher object's fields
    el,        \* per element: DOM state and the properties the watcher hangs on it
    timers,    \* timers the watcher has scheduled and that have not fired
    mutQueue,  \* record queue of countdownObserver
    hist,      \* history: what was focused in the current session
    cs,        \* the content script: its module-level state, its page, its timers
    om,        \* the overlay manager: its registries, its overlays, its page
    clf,       \* the classifier: the element handed to it and what it returned
    pure       \* a call of a pure function: its argument and what it returned

vars == <<cw, el, timers, mutQueue, hist, cs, om, clf, pure>>

\* value of the variables of a component that a specification leaves out
Unused == "unused"

\* the state as one value, threaded through the handlers
St == [cw |-> cw, el |-> el, tm |-> timers, q |-> mutQueue, h |-> hist]

Commit(s) ==
    /\ cw' = s.cw
    /\ el' = s.el
    /\ timers' = s.tm
    /\ mutQueue' = s.q
    /\ hist' = s.h
    /\ UNCHANGED <<cs, om, clf, pure>>

Commit0(s) ==
    /\ cw = s.cw
    /\ el = s.el
    /\ timers = s.tm
    /\ mutQueue = s.q
    /\ hist = s.h
    /\ cs = Unused /\ om = Unused /\ clf = Unused /\ pure = Unused

\* the call of a pure function returns
PureCommit(c) ==
    /\ pure' = c
    /\ UNCHANGED <<cw, el, timers, mutQueue, hist, cs, om, clf>>

(***************************************************************************)
(* extractNumericValue. A text is one piece or two pieces joined by a      *)
(* space (SeqText). The pieces and what the six patterns, tried in the     *)
(* order of the array, find in them (text.match returns the leftmost match *)
(* of a pattern, \d{1,2} takes at most two digits):                        *)
(*   word       "Loading"              no pattern                          *)
(*   num        "a"                    standalone, when a has 1-2 digits   *)
(*   clock      "a:bb"                 MM:SS, when a has 1-2 digits and bb *)
(*                                     starts with 0-5                     *)
(*   wait       "wait a seconds"       standalone and wait, 1-2 digits     *)
(*   in         "in a seconds"         standalone and in, 1-2 digits       *)
(*   timer      "timer:a"              timer only (the number follows the  *)
(*                                     colon): the first two digits of a   *)
(*   remaining  "as remaining"         remaining only (the unit follows    *)
(*                                     the number): the last two digits    *)
(* The empty string is falsy. A match is accepted when its value is in     *)
(* [1,300]; otherwise the loop goes on to the next pattern.                *)
(***************************************************************************)
ExtractLow == 1
ExtractHigh == 300

SeqText(t1, t2) == Text("seq", t1, t2)
Pieces(t) == IF t.k = "seq" THEN <<t.a, t.b>> ELSE <<t>>

FirstTwoDigits(n) == IF n <= 99 THEN n ELSE n \div 10
LastTwoDigits(n) == n % 100

\* the patterns array, by index
patterns == 1 .. 6

\* parseInt of the match of pattern p inside one piece (minutes * 60 +
\* seconds when the pattern has a second group), null when it does not match
matchPiece(p, t) ==
    CASE p = 1 /\ t.k = "clock" /\ t.a <= 99 /\ t.b <= 59 -> t.a * 60 + t.b
      [] p = 2 /\ t.k \in {"num", "wait", "in"} /\ t.a <= 99 -> t.a
      [] p = 3 /\ t.k = "wait" /\ t.a <= 99 -> t.a
      [] p = 4 /\ t.k = "in" /\ t.a <= 99 -> t.a
      [] p = 5 /\ t.k = "timer" -> FirstTwoDigits(t.a)
      [] p = 6 /\ t.k = "remaining" -> LastTwoDigits(t.a)
      [] OTHER -> null

\* text.match(pattern): the leftmost match
RECURSIVE match(_, _)
match(pieces, p) ==
    IF pieces = <<>> THEN null
    ELSE IF matchPiece(p, Head(pieces)) # null THEN matchPiece(p, Head(pieces))
    ELSE match(Tail(pieces), p)

acceptAny(num) == TRUE

\* num >= 1 && num <= 300
inRange(num) == num >= ExtractLow /\ num <= ExtractHigh

\* for (const pattern of patterns), from index p on
RECURSIVE patternsFrom(_, _)
patternsFrom(pieces, p) ==
    IF p \notin patterns THEN null
    ELSE LET num == match(pieces, p)
         IN IF num # null /\ inRange(num) THEN num
            ELSE patternsFrom(pieces, p + 1)

extractNumericValue(t) ==
    IF t.k = "empty" THEN null ELSE patternsFrom(Pieces(t), 1)

\* text.trim() is a non-empty string
NonBlank(t) == t.k # "empty"

(***************************************************************************)
(* History of the session (not program state): the elements that received  *)
(* the focus effect since the session began.                               *)
(***************************************************************************)
HistInit == [focused |-> {}]

NewSession(s) == [s EXCEPT !.h = HistInit]

Focused(s, e) == [s EXCEPT !.h.focused = @ \cup {e}]

(***************************************************************************)
(* src/countdownWatcher.js                                                 *)
(***************************************************************************)
minimumDuration == 15
maximumDuration == 60

CW_isExtensionEnabled(s) == s.cw.enabled

CW_removeOverlayEffect(s, e) ==
    IF s.el[e].countdownOverlay
    THEN [s EXCEPT !.el[e].countdownOverlay = FALSE]
    ELSE s

CW_removeEffects(s, e) ==
    CW_removeOverlayEffect([s EXCEPT !.el[e].focusClass = FALSE], e)

CW_startActiveMonitoring(s, e) ==
    [s EXCEPT !.el[e].countdownMonitorInterval = TRUE]

CW_scrollToCountdown(s, e) ==
    IF s.cw.hasScrolledToCountdown THEN s
    ELSE [s EXCEPT !.cw.hasScrolledToCountdown = TRUE]

CW_applyFocusEffect(s, e) ==
    LET s1 == CW_removeOverlayEffect([s EXCEPT !.el[e].focusClass = TRUE], e)
    IN Focused([s1 EXCEPT !.el[e].countdownOverlay = TRUE], e)

CW_handleConfirmedCountdown(s, e) ==
    CW_applyFocusEffect(
        CW_scrollToCountdown([s EXCEPT !.cw.detectedCountdownElement = e], e), e)

CW_continueMonitoring(s, e, currentValue) ==
    IF currentValue <= 0 \/ ~s.el[e].inDoc
    THEN CW_removeEffects(
             [s EXCEPT !.cw.elementTracker = MapDel(@, e)], e)
    ELSE [s EXCEPT !.tm.cont[e] = @ + 1]

\* a tracker whose streak starts over at the value
ResetStreak(tr, currentValue) ==
    [lastValue |-> currentValue, consecutiveDecreases |-> 0]

\* the tracker after a value equal to lastValue: the counter is kept
SameValue(tr, currentValue) == [tr EXCEPT !.lastValue = currentValue]

CW_checkForNumericChange(s0, e, currentText) ==
    LET currentValue == extractNumericValue(currentText)
        s == s0
        tracked == e \in DOMAIN s.cw.elementTracker
    IN IF ~CW_isExtensionEnabled(s0) THEN s0
       ELSE IF currentValue = null
       THEN IF tracked
            THEN [CW_removeEffects(s, e) EXCEPT !.cw.elementTracker = MapDel(@, e)]
            ELSE s
       ELSE IF currentValue < minimumDuration \/ currentValue > maximumDuration
       THEN IF tracked
            THEN [s EXCEPT !.cw.elementTracker = MapDel(@, e)]
            ELSE s
       ELSE IF tracked
       THEN LET tr == s.cw.elementTracker[e]
            IN IF currentValue < tr.lastValue
               THEN LET n == tr.consecutiveDecreases + 1
                        s1 == [s EXCEPT !.cw.elementTracker[e] =
                                  [lastValue |-> currentValue,
                                   consecutiveDecreases |-> n]]
                        s2 == IF n >= 2 /\ ~s1.cw.hasScrolledToCountdown
                              THEN CW_continueMonitoring(
                                       CW_handleConfirmedCountdown(s1, e),
                                       e, currentValue)
                              ELSE s1
                    IN CW_startActiveMonitoring(s2, e)
               ELSE IF currentValue > tr.lastValue
               THEN CW_startActiveMonitoring(
                        [s EXCEPT !.cw.elementTracker[e] =
                            [lastValue |-> currentValue,
                             consecutiveDecreases |-> 0]], e)
               ELSE CW_startActiveMonitoring(
                        [s EXCEPT !.cw.elementTracker[e] =
                            SameValue(tr, currentValue)], e)
       ELSE CW_startActiveMonitoring(
                [s EXCEPT !.cw.elementTracker =
                    MapPut(@, e, [lastValue |-> currentValue,
                                  consecutiveDecreases |-> 0])], e)

\* clearTimeout of the element's pending debounce timer, then a new one
CW_processTextChanged(s, e, text) ==
    IF text.k = "empty" \/ ~CW_isExtensionEnabled(s) THEN s
    ELSE LET old == IF e \in DOMAIN s.cw.debounceTimers
                    THEN {[el |-> e, text |-> s.cw.debounceTimers[e]]}
                    ELSE {}
         IN [s EXCEPT !.tm.debounce = (@ \ old) \cup {[el |-> e, text |-> text]},
                      !.cw.debounceTimers = MapPut(@, e, text)]

\* the element's direct text, then each text node under it: the same text
CW_processNewElement(s, e) ==
    IF s.el[e].inDoc /\ NonBlank(s.el[e].text)
    THEN CW_processTextChanged(CW_processTextChanged(s, e, s.el[e].text),
                               e, s.el[e].text)
    ELSE s

CW_mutation(s, m) ==
    CASE m.type = "childList" -> CW_processNewElement(s, m.el)
      [] m.type = "characterData" -> CW_processTextChanged(s, m.el, s.el[m.el].text)
      [] OTHER ->
            IF s.el[m.el].inDoc /\ NonBlank(s.el[m.el].text)
            THEN CW_processTextChanged(s, m.el, s.el[m.el].text)
            ELSE s

RECURSIVE CW_mutations(_, _)
CW_mutations(s, ms) ==
    IF ms = <<>> THEN s
    ELSE CW_mutations(CW_mutation(s, Head(ms)), Tail(ms))

CW_handleMutations(s, ms) ==
    IF ~CW_isExtensionEnabled(s) THEN s
    ELSE IF s.cw.hasScrolledToCountdown /\ s.cw.detectedCountdownElement # NoElem
    THEN s
    ELSE CW_mutations(s, ms)

\* disconnect() of a MutationObserver empties its record queue
CW_startObserving(s) ==
    [s EXCEPT !.cw.countdownObserver = "observing", !.q = <<>>]

CW_clearDebounceTimers(s) ==
    [s EXCEPT !.tm.debounce =
                 @ \ {[el |-> e, text |-> s.cw.debounceTimers[e]] :
                          e \in DOMAIN s.cw.debounceTimers},
              !.cw.debounceTimers = EmptyMap]

RECURSIVE CW_removeEffectsOf(_, _)
CW_removeEffectsOf(s, es) ==
    IF es = {} THEN s
    ELSE LET e == CHOOSE x \in es : TRUE
         IN CW_removeEffectsOf(CW_removeEffects(s, e), es \ {e})

RECURSIVE CW_clearIntervalsOf(_, _)
CW_clearIntervalsOf(s, es) ==
    IF es = {} THEN s
    ELSE LET e == CHOOSE x \in es : TRUE
         IN CW_clearIntervalsOf(
                [s EXCEPT !.el[e].countdownMonitorInterval = FALSE], es \ {e})

CW_setEnabled(s, enabled) ==
    LET s1 == [s EXCEPT !.cw.enabled = enabled]
    IN IF ~enabled
       THEN LET s2 == IF s1.cw.countdownObserver = "null" THEN s1
                      ELSE [s1 EXCEPT !.cw.countdownObserver = "disconnected",
                                      !.q = <<>>]
                s3 == CW_removeEffectsOf(s2, DOMAIN s2.cw.elementTracker)
                s4 == CW_clearDebounceTimers(
                          [s3 EXCEPT !.cw.elementTracker = EmptyMap])
            IN [s4 EXCEPT !.cw.hasScrolledToCountdown = FALSE,
                          !.cw.detectedCountdownElement = NoElem,
                          !.h = HistInit]
       ELSE IF CW_isExtensionEnabled(s1) THEN CW_startObserving(s1) ELSE s1

CW_disconnect(s) ==
    LET s1 == IF s.cw.countdownObserver = "null" THEN s
              ELSE [s EXCEPT !.cw.countdownObserver = "disconnected", !.q = <<>>]
        s2 == CW_clearDebounceTimers(s1)
        tr == DOMAIN s2.cw.elementTracker
        s3 == CW_removeEffectsOf(CW_clearIntervalsOf(s2, tr), tr)
    IN [s3 EXCEPT !.cw.elementTracker = EmptyMap]

CW_reset(s) ==
    [CW_disconnect(s) EXCEPT !.cw.hasScrolledToCountdown = FALSE,
                             !.cw.detectedCountdownElement = NoElem,
                             !.h = HistInit]

\* no counter of pending timeouts is above the bound of the model
Bounded(s) == \A e \in DOMAIN s.tm.cont : s.tm.cont[e] <= MaxPending

\* the page of the observer-driven watcher: one element under observation
CW_Elems == {"e1"}

ElInit(es) ==
    [e \in es |->
        [inDoc |-> TRUE,
         text |-> WordText,
         countdownMonitorInterval |-> FALSE,
         countdownOverlay |-> FALSE,
         focusClass |-> FALSE]]

\* new CountdownWatcher(options): the constructor and init()
CW_constructor(enabled) ==
    LET s0 == [cw |-> [enabled |-> enabled,
                       hasScrolledToCountdown |-> FALSE,
                       detectedCountdownElement |-> NoElem,
                       countdownObserver |-> "null",
                       elementTracker |-> EmptyMap,
                       debounceTimers |-> EmptyMap],
               el |-> ElInit(CW_Elems),
               tm |-> [debounce |-> {}, cont |-> [e \in CW_Elems |-> 0]],
               q |-> <<>>,
               h |-> HistInit]
    IN IF CW_isExtensionEnabled(s0) THEN CW_startObserving(s0) ELSE s0

InitCW == \E enabled \in BOOLEAN : Commit0(CW_constructor(enabled))

(***************************************************************************)
(* The page changes the DOM. A connected observer queues a record for a    *)
(* change inside document.body.                                            *)
(***************************************************************************)
Record(s, type, e) ==
    IF s.cw.countdownObserver = "observing" /\ s.el[e].inDoc
    THEN [s EXCEPT !.q = Append(@, [type |-> type, el |-> e])]
    ELSE s

PageStep(s) == Len(s.q) <= MaxQueue /\ Commit(s)

PageSetText(e, t) ==
    /\ t # el[e].text
    /\ PageStep(Record([St EXCEPT !.el[e].text = t], "characterData", e))

PageSetAttribute(e) ==
    /\ cw.countdownObserver = "observing" /\ el[e].inDoc
    /\ PageStep(Record(St, "attributes", e))

PageAppend(e) ==
    /\ ~el[e].inDoc
    /\ PageStep(Record([St EXCEPT !.el[e].inDoc = TRUE], "childList", e))

PageRemove(e) ==
    /\ el[e].inDoc
    /\ Commit([St EXCEPT !.el[e].inDoc = FALSE])

(***************************************************************************)
(* Callbacks of src/countdownWatcher.js                                    *)
(***************************************************************************)
CW_Deliver ==
    /\ mutQueue # <<>>
    /\ Commit(CW_handleMutations([St EXCEPT !.q = <<>>], mutQueue))

CW_DebounceFire(d) ==
    /\ d \in timers.debounce
    /\ LET s1 == [St EXCEPT !.tm.debounce = @ \ {d},
                            !.cw.debounceTimers = MapDel(@, d.el)]
           s2 == CW_checkForNumericChange(s1, d.el, d.text)
       IN Bounded(s2) /\ Commit(s2)

CW_PollFire(e) ==
    /\ el[e].countdownMonitorInterval
    /\ LET s2 == IF ~el[e].inDoc
                 THEN [St EXCEPT !.el[e].countdownMonitorInterval = FALSE]
                 ELSE IF NonBlank(el[e].text)
                 THEN CW_checkForNumericChange(St, e, el[e].text)
                 ELSE St
       IN Bounded(s2) /\ Commit(s2)

CW_ContinueFire(e) ==
    /\ timers.cont[e] > 0
    /\ LET s1 == [St EXCEPT !.tm.cont[e] = @ - 1]
           s2 == IF e \notin DOMAIN cw.elementTracker THEN s1
                 ELSE IF extractNumericValue(el[e].text) = null
                 THEN [CW_removeEffects(s1, e) EXCEPT
                          !.cw.elementTracker = MapDel(@, e)]
                 ELSE CW_checkForNumericChange(s1, e, el[e].text)
       IN Bounded(s2) /\ Commit(s2)

CW_SetEnabled(enabled) == Commit(CW_setEnabled(St, enabled))

CW_Disconnect == Commit(CW_disconnect(St))

CW_Reset == Commit(CW_reset(St))

NextCW ==
    \/ \E e \in CW_Elems, t \in PageTexts : PageSetText(e, t)
    \/ \E e \in CW_Elems : PageSetAttribute(e)
    \/ \E e \in CW_Elems : PageAppend(e)
    \/ \E e \in CW_Elems : PageRemove(e)
    \/ CW_Deliver
    \/ \E d \in timers.debounce : CW_DebounceFire(d)
    \/ \E e \in CW_Elems : CW_PollFire(e)
    \/ \E e \in CW_Elems : CW_ContinueFire(e)
    \/ \E enabled \in BOOLEAN : CW_SetEnabled(enabled)
    \/ CW_Disconnect
    \/ CW_Reset

SpecCW == InitCW /\ [][NextCW]_vars

(***************************************************************************)
(* The observer-driven watcher on a page that runs one countdown: the text *)
(* of the element is a number that only decreases, until the page replaces *)
(* it by a text without digits; the page may remove the element at any     *)
(* time. The timers and the observer callback run when they are due.       *)
(***************************************************************************)
\* the values the countdown shows after its first one, 20
CD_Values == {18, 17, 16, 14}

InitCD ==
    Commit0([CW_constructor(TRUE) EXCEPT
                !.el = [e \in CW_Elems |->
                           [@[e] EXCEPT !.text = NumText(20)]]])

CD_Tick(e, n) ==
    /\ el[e].text.k = "num"
    /\ n < el[e].text.a
    /\ PageSetText(e, NumText(n))

CD_Finish(e) ==
    /\ el[e].text.k = "num"
    /\ PageSetText(e, WordText)

CD_Remove(e) ==
    /\ el[e].inDoc
    /\ PageRemove(e)

NextCD ==
    \/ \E e \in CW_Elems, n \in CD_Values : CD_Tick(e, n)
    \/ \E e \in CW_Elems : CD_Finish(e)
    \/ \E e \in CW_Elems : CD_Remove(e)
    \/ CW_Deliver
    \/ \E d \in timers.debounce : CW_DebounceFire(d)
    \/ \E e \in CW_Elems : CW_PollFire(e)
    \/ \E e \in CW_Elems : CW_ContinueFire(e)

SpecCD == InitCD /\ [][NextCD]_vars

SpecCDFair ==
    /\ SpecCD
    /\ WF_vars(CW_Deliver)
    /\ WF_vars(\E d \in timers.debounce : CW_DebounceFire(d))
    /\ \A e \in CW_Elems : WF_vars(CW_PollFire(e))
    /\ \A e \in CW_Elems : WF_vars(CW_ContinueFire(e))

(***************************************************************************)
(* src/unnamed/part_000: the button-triggered CountdownWatcher. Detection  *)
(* starts on a click on a button of the page; the page has one button,     *)
(* present from the start. Here timers are                                 *)
(*   detect.live     the timeout this.detectionTimeout refers to is pending*)
(*   detect.orphans  pending detection timeouts no field refers to         *)
(*   focus           the element of the pending focusEffectTimeout         *)
(*   cont[e]         pending continueMonitoring timeouts of e              *)
(***************************************************************************)
BT_minimumDuration == 1
BT_maximumDuration == 120
ScanLow == 1
ScanHigh == 120

\* document order of the elements querySelectorAll returns
ElemOrder == <<"e1", "e2">>

\* what the page writes into its elements: e1 is rewritten freely, e2 is a
\* label that shows a word or one number
BT_Texts == {WordText, NumText(16), NumText(17), NumText(18)}
BT_TextsOf == [e \in Elems |-> IF e = "e1" THEN BT_Texts ELSE {WordText, NumText(17)}]

BT_isExtensionEnabled(s) == s.cw.enabled

BT_removeOverlayEffect(s, e) ==
    IF s.el[e].countdownOverlay
    THEN [s EXCEPT !.el[e].countdownOverlay = FALSE]
    ELSE s

BT_removeEffects(s, e) ==
    BT_removeOverlayEffect([s EXCEPT !.el[e].focusClass = FALSE], e)

BT_createOverlayEffect(s, e) ==
    [BT_removeOverlayEffect(s, e) EXCEPT !.el[e].countdownOverlay = TRUE]

BT_scrollToCountdown(s, e) ==
    IF s.cw.hasScrolledToCountdown THEN s
    ELSE [s EXCEPT !.cw.hasScrolledToCountdown = TRUE]

\* clearTimeout(this.focusEffectTimeout), then a new timeout for this element
BT_applyFocusEffect(s, e) ==
    LET s1 == IF ~s.el[e].countdownOverlay THEN BT_createOverlayEffect(s, e) ELSE s
    IN Focused([s1 EXCEPT !.tm.focus = e], e)

BT_continueMonitoring(s, e) ==
    IF ~s.el[e].inDoc THEN BT_removeEffects(s, e)
    ELSE [s EXCEPT !.tm.cont[e] = @ + 1]

BT_clearDebounceTimers(s) ==
    [s EXCEPT !.tm.debounce =
                 @ \ {[el |-> e, text |-> s.cw.debounceTimers[e]] :
                          e \in DOMAIN s.cw.debounceTimers},
              !.cw.debounceTimers = EmptyMap]

RECURSIVE BT_clearIntervalsOf(_, _)
BT_clearIntervalsOf(s, es) ==
    IF es = {} THEN s
    ELSE LET e == CHOOSE x \in es : TRUE
         IN BT_clearIntervalsOf(
                [s EXCEPT !.el[e].countdownMonitorInterval = FALSE], es \ {e})

RECURSIVE BT_removeEffectsOf(_, _)
BT_removeEffectsOf(s, es) ==
    IF es = {} THEN s
    ELSE LET e == CHOOSE x \in es : TRUE
         IN BT_removeEffectsOf(BT_removeEffects(s, e), es \ {e})

\* if (this.detectionTimeout) { clearTimeout(...); this.detectionTimeout = null }
BT_clearDetectionTimeout(s) ==
    IF s.cw.detectionTimeout = "null" THEN s
    ELSE [s EXCEPT !.tm.detect.live = FALSE, !.cw.detectionTimeout = "null"]

BT_stopCountdownDetection(s) ==
    LET s1 == BT_clearDetectionTimeout([s EXCEPT !.cw.isDetecting = FALSE])
        s2 == IF s1.cw.countdownObserver = "null" THEN s1
              ELSE [s1 EXCEPT !.cw.countdownObserver = "null", !.q = <<>>]
        s3 == BT_clearDebounceTimers(
                  BT_clearIntervalsOf(s2, DOMAIN s2.cw.elementTracker))
    IN [s3 EXCEPT !.cw.elementTracker = EmptyMap,
                  !.cw.hasScrolledToCountdown = FALSE,
                  !.cw.detectedCountdownElement = NoElem]

\* the confirmation sequence the three detection paths share
BT_confirm(s, e) ==
    BT_stopCountdownDetection(
        BT_continueMonitoring(
            BT_applyFocusEffect(
                BT_scrollToCountdown(
                    [s EXCEPT !.cw.detectedCountdownElement = e], e), e), e))

BT_unconfirmed(s) ==
    ~s.cw.hasScrolledToCountdown /\ s.cw.detectedCountdownElement = NoElem

BT_scanElement(s, e) ==
    LET v == extractNumericValue(s.el[e].text)
    IN IF s.el[e].inDoc /\ NonBlank(s.el[e].text)
          /\ v # null /\ v >= ScanLow /\ v <= ScanHigh
          /\ e \notin DOMAIN s.cw.elementTracker
       THEN LET s1 == [s EXCEPT !.cw.elementTracker =
                          MapPut(@, e, [lastValue |-> v,
                                        consecutiveDecreases |-> 0])]
            IN IF BT_unconfirmed(s1) THEN BT_confirm(s1, e) ELSE s1
       ELSE s

RECURSIVE BT_scanFrom(_, _)
BT_scanFrom(s, es) ==
    IF es = <<>> THEN s
    ELSE BT_scanFrom(BT_scanElement(s, Head(es)), Tail(es))

BT_scanForInitialCountdowns(s) == BT_scanFrom(s, ElemOrder)

\* the pending detection timeout stays scheduled, only the handle is dropped
BT_resetState(s) ==
    LET orphaned == IF s.tm.detect.live THEN 1 ELSE 0
    IN NewSession(
           [s EXCEPT !.cw.hasScrolledToCountdown = FALSE,
                     !.cw.detectedCountdownElement = NoElem,
                     !.cw.isDetecting = FALSE,
                     !.cw.detectionTimeout = "null",
                     !.tm.detect = [live |-> FALSE,
                                    orphans |-> @.orphans + orphaned]])

BT_startObserving(s) ==
    [BT_resetState(s) EXCEPT !.cw.countdownObserver = "observing", !.q = <<>>]

BT_startCountdownDetection(s) ==
    IF s.cw.isDetecting THEN s
    ELSE LET s1 == BT_scanForInitialCountdowns(
                       BT_startObserving([s EXCEPT !.cw.isDetecting = TRUE]))
         IN [s1 EXCEPT !.cw.detectionTimeout = "set", !.tm.detect.live = TRUE]

BT_startActiveMonitoring(s, e) ==
    [s EXCEPT !.el[e].countdownMonitorInterval = TRUE]

BT_checkForNumericChange(s0, e, currentText) ==
    LET currentValue == extractNumericValue(currentText)
        s == s0
        tracked == e \in DOMAIN s.cw.elementTracker
        monitor(t) == IF ~t.cw.hasScrolledToCountdown
                         /\ t.cw.countdownObserver # "null"
                      THEN BT_startActiveMonitoring(t, e)
                      ELSE t
    IN IF ~BT_isExtensionEnabled(s0) THEN s0
       ELSE IF currentValue = null
       THEN IF tracked
            THEN [BT_removeEffects(s, e) EXCEPT !.cw.elementTracker = MapDel(@, e)]
            ELSE s
       ELSE IF currentValue < ScanLow \/ currentValue > ScanHigh THEN s
       ELSE IF tracked
       THEN LET tr == s.cw.elementTracker[e]
            IN IF currentValue < tr.lastValue
               THEN LET n == tr.consecutiveDecreases + 1
                        s1 == [s EXCEPT !.cw.elementTracker[e] =
                                  [lastValue |-> currentValue,
                                   consecutiveDecreases |-> n]]
                    IN IF n < 2 THEN monitor(s1)
                       ELSE IF currentValue >= BT_minimumDuration
                               /\ currentValue <= BT_maximumDuration
                       THEN IF BT_unconfirmed(s1)
                            THEN monitor(BT_confirm(s1, e))
                            ELSE monitor(s1)
                       ELSE monitor([s1 EXCEPT !.cw.elementTracker = MapDel(@, e)])
               ELSE IF currentValue > tr.lastValue
               THEN monitor([s EXCEPT !.cw.elementTracker[e] =
                                [lastValue |-> currentValue,
                                 consecutiveDecreases |-> 0]])
               ELSE monitor([s EXCEPT !.cw.elementTracker[e] =
                                SameValue(tr, currentValue)])
       ELSE monitor([s EXCEPT !.cw.elementTracker =
                        MapPut(@, e, [lastValue |-> currentValue,
                                      consecutiveDecreases |-> 0])])

BT_processTextChanged(s, e, text) ==
    LET numericValue == extractNumericValue(text)
    IN IF text.k = "empty" \/ ~BT_isExtensionEnabled(s) THEN s
       ELSE IF numericValue # null
               /\ numericValue >= ScanLow /\ numericValue <= ScanHigh
               /\ BT_unconfirmed(s) /\ e \notin DOMAIN s.cw.elementTracker
       THEN [BT_confirm(s, e) EXCEPT
                !.cw.elementTracker =
                    MapPut(@, e, [lastValue |-> numericValue,
                                  consecutiveDecreases |-> 0])]
       ELSE LET old == IF e \in DOMAIN s.cw.debounceTimers
                       THEN {[el |-> e, text |-> s.cw.debounceTimers[e]]}
                       ELSE {}
            IN [s EXCEPT !.tm.debounce =
                            (@ \ old) \cup {[el |-> e, text |-> text]},
                         !.cw.debounceTimers = MapPut(@, e, text)]

BT_processNewElement(s, e) ==
    IF s.el[e].inDoc /\ NonBlank(s.el[e].text)
    THEN BT_processTextChanged(BT_processTextChanged(s, e, s.el[e].text),
                               e, s.el[e].text)
    ELSE s

\* attribute records are those of style and class
BT_mutation(s, m) ==
    CASE m.type = "childList" -> BT_processNewElement(s, m.el)
      [] m.type = "characterData" -> BT_processTextChanged(s, m.el, s.el[m.el].text)
      [] OTHER ->
            IF s.el[m.el].inDoc /\ NonBlank(s.el[m.el].text)
            THEN BT_processTextChanged(s, m.el, s.el[m.el].text)
            ELSE s

RECURSIVE BT_mutations(_, _)
BT_mutations(s, ms) ==
    IF ms = <<>> THEN s
    ELSE BT_mutations(BT_mutation(s, Head(ms)), Tail(ms))

BT_handleMutations(s, ms) ==
    IF ~BT_isExtensionEnabled(s) THEN s
    ELSE IF s.cw.countdownObserver = "null" THEN s
    ELSE BT_mutations(s, ms)

BT_setupButtonListeners(s) ==
    [s EXCEPT !.cw.listenerAdded = TRUE, !.cw.buttonObserver = "observing"]

BT_setEnabled(s, enabled) ==
    LET s1 == [s EXCEPT !.cw.enabled = enabled]
    IN IF ~enabled
       THEN LET s2 == IF s1.cw.countdownObserver = "null" THEN s1
                      ELSE [s1 EXCEPT !.cw.countdownObserver = "disconnected",
                                      !.q = <<>>]
                s3 == IF s2.cw.buttonObserver = "null" THEN s2
                      ELSE [s2 EXCEPT !.cw.buttonObserver = "disconnected"]
                s4 == BT_clearDetectionTimeout(s3)
                tr == DOMAIN s4.cw.elementTracker
                s5 == BT_clearIntervalsOf(BT_removeEffectsOf(s4, tr), tr)
                s6 == BT_clearDebounceTimers(
                          [s5 EXCEPT !.cw.elementTracker = EmptyMap])
            IN NewSession(
                   [s6 EXCEPT !.tm.focus = NoElem,
                              !.cw.hasScrolledToCountdown = FALSE,
                              !.cw.detectedCountdownElement = NoElem,
                              !.cw.isDetecting = FALSE])
       ELSE IF BT_isExtensionEnabled(s1) THEN BT_setupButtonListeners(s1) ELSE s1

BT_disconnectObserver(s) ==
    LET s1 == IF s.cw.countdownObserver = "null" THEN s
              ELSE [s EXCEPT !.cw.countdownObserver = "null", !.q = <<>>]
    IN BT_clearIntervalsOf(s1, DOMAIN s1.cw.elementTracker)

BT_disconnect(s) ==
    LET s1 == BT_disconnectObserver(s)
        s2 == BT_clearDetectionTimeout(
                  [s1 EXCEPT !.cw.buttonObserver = "null", !.tm.focus = NoElem])
        s3 == BT_clearDebounceTimers(s2)
        tr == DOMAIN s3.cw.elementTracker
        s4 == BT_removeEffectsOf(BT_clearIntervalsOf(s3, tr), tr)
    IN [s4 EXCEPT !.cw.elementTracker = EmptyMap]

BT_reset(s) == BT_resetState(BT_disconnect(s))

\* new CountdownWatcher(options): the constructor and init()
BT_constructor(enabled, texts) ==
    LET s0 == [cw |-> [enabled |-> enabled,
                       hasScrolledToCountdown |-> FALSE,
                       detectedCountdownElement |-> NoElem,
                       countdownObserver |-> "null",
                       isDetecting |-> FALSE,
                       detectionTimeout |-> "null",
                       buttonObserver |-> "null",
                       listenerAdded |-> FALSE,
                       elementTracker |-> EmptyMap,
                       debounceTimers |-> EmptyMap],
               el |-> [e \in Elems |-> [ElInit(Elems)[e] EXCEPT !.text = texts[e]]],
               tm |-> [debounce |-> {},
                       cont |-> [e \in Elems |-> 0],
                       detect |-> [live |-> FALSE, orphans |-> 0],
                       focus |-> NoElem],
               q |-> <<>>,
               h |-> HistInit]
    IN IF BT_isExtensionEnabled(s0) THEN BT_setupButtonListeners(s0) ELSE s0

InitBT ==
    \E enabled \in BOOLEAN, texts \in [Elems -> BT_Texts] :
        /\ \A e \in Elems : texts[e] \in BT_TextsOf[e]
        /\ Commit0(BT_constructor(enabled, texts))

BT_Bounded(s) ==
    /\ Bounded(s)
    /\ s.tm.detect.orphans + (IF s.tm.detect.live THEN 1 ELSE 0) <= MaxPending

\* a click on the button: the listener addButtonListener registered
BT_Click ==
    /\ cw.listenerAdded
    /\ LET s2 == BT_startCountdownDetection(St)
       IN BT_Bounded(s2) /\ Commit(s2)

BT_Deliver ==
    /\ mutQueue # <<>>
    /\ LET s2 == BT_handleMutations([St EXCEPT !.q = <<>>], mutQueue)
       IN BT_Bounded(s2) /\ Commit(s2)

BT_DebounceFire(d) ==
    /\ d \in timers.debounce
    /\ LET s1 == [St EXCEPT !.tm.debounce = @ \ {d},
                            !.cw.debounceTimers = MapDel(@, d.el)]
           s2 == BT_checkForNumericChange(s1, d.el, d.text)
       IN BT_Bounded(s2) /\ Commit(s2)

BT_PollFire(e) ==
    /\ el[e].countdownMonitorInterval
    /\ LET s2 == IF ~el[e].inDoc
                 THEN [St EXCEPT !.el[e].countdownMonitorInterval = FALSE]
                 ELSE IF NonBlank(el[e].text)
                 THEN BT_checkForNumericChange(St, e, el[e].text)
                 ELSE St
       IN BT_Bounded(s2) /\ Commit(s2)

\* the timeout of continueMonitoring
BT_ContinueFire(e) ==
    /\ timers.cont[e] > 0
    /\ LET s1 == [St EXCEPT !.tm.cont[e] = @ - 1]
       IN Commit(IF el[e].inDoc THEN BT_removeOverlayEffect(s1, e) ELSE s1)

\* the timeout of applyFocusEffect: removeFocusEffect(element)
BT_FocusEffectFire ==
    /\ timers.focus # NoElem
    /\ Commit(BT_removeOverlayEffect([St EXCEPT !.tm.focus = NoElem],
                                     timers.focus))

\* a detection timeout fires: the one the field refers to, or an orphan
BT_DetectionFire(referenced) ==
    /\ IF referenced THEN timers.detect.live ELSE timers.detect.orphans > 0
    /\ LET s1 == IF referenced
                 THEN [St EXCEPT !.tm.detect.live = FALSE]
                 ELSE [St EXCEPT !.tm.detect.orphans = @ - 1]
       IN Commit(BT_stopCountdownDetection(s1))

BT_SetEnabled(enabled) == Commit(BT_setEnabled(St, enabled))

BT_Disconnect == Commit(BT_disconnect(St))

BT_Reset == Commit(BT_reset(St))

NextBT ==
    \/ \E e \in Elems : \E t \in BT_TextsOf[e] : PageSetText(e, t)
    \/ BT_Click
    \/ BT_Deliver
    \/ \E d \in timers.debounce : BT_DebounceFire(d)
    \/ \E e \in Elems : BT_PollFire(e)
    \/ \E e \in Elems : BT_ContinueFire(e)
    \/ BT_FocusEffectFire
    \/ \E referenced \in BOOLEAN : BT_DetectionFire(referenced)
    \/ \E enabled \in BOOLEAN : BT_SetEnabled(enabled)
    \/ BT_Disconnect
    \/ BT_Reset

SpecBT == InitBT /\ [][NextBT]_vars

(***************************************************************************)
(* Properties of the two CountdownWatcher variants                         *)
(***************************************************************************)
NewlyFocused(e) == el'[e].countdownOverlay /\ ~el[e].countdownOverlay

\* a click handler ends by arming the detection timeout; every other handler
\* that confirms an element ends with the timeout cleared
ClickStep == cw'.detectionTimeout = "set"

\* C1: no element is confirmed on its first observed value or after a single
\* decrease: whenever a value observed through the mutation, new-subtree or
\* poll channel gives an element the focus effect, its tracker had already
\* recorded a decrease before that value (the value is the second decrease in
\* a row). Stated for the button-triggered watcher.
C1_NoEarlyConfirmation ==
    [][\A e \in DOMAIN el :
          (NewlyFocused(e) /\ ~ClickStep) =>
              /\ e \in DOMAIN cw.elementTracker
              /\ cw.elementTracker[e].consecutiveDecreases >= 1]_vars

\* C2: once one element has been confirmed in a session no other element is
\* confirmed in it: at most one element has received the focus effect since
\* the session began.
C2_OneConfirmationPerSession == Cardinality(hist.focused) <= 1

CleanAfterDisable ==
    /\ cw.elementTracker = EmptyMap
    /\ timers.debounce = {}
    /\ \A e \in DOMAIN el : ~el[e].countdownMonitorInterval
    /\ \A e \in DOMAIN el : ~el[e].countdownOverlay
    /\ ~cw.hasScrolledToCountdown
    /\ cw.detectedCountdownElement = NoElem

\* C3: after setEnabled(false) returns the tracker is empty, no debounce timer
\* and no poll interval is scheduled, no focus overlay remains, and the
\* confirmation flags are reset. Stated for the observer-driven watcher.
C3_DisableClearsEverything ==
    [][(cw.enabled /\ ~cw'.enabled) => CleanAfterDisable']_vars

\* C5: while the enabled flag is false no event starts DOM observation,
\* creates a tracker entry, or applies a scroll or focus effect.
C5_NothingWhileDisabled ==
    [][(~cw.enabled /\ ~cw'.enabled) =>
          /\ cw'.countdownObserver = "observing" => cw.countdownObserver = "observing"
          /\ DOMAIN cw'.elementTracker \subseteq DOMAIN cw.elementTracker
          /\ cw'.hasScrolledToCountdown => cw.hasScrolledToCountdown
          /\ \A e \in DOMAIN el : ~NewlyFocused(e)]_vars

\* C11: an element is tracked from its first value: when the debounced text
\* of an untracked element reaches checkForNumericChange while the watcher is
\* enabled and the text holds a value (150, read from "2:30", with the range
\* 15..60), the handler leaves a tracker for the element holding that value;
\* the duration range is not applied before a value enters confirmation.
\* Stated for the observer-driven watcher.
C11_TrackedFromFirstValue ==
    [][\A d \in timers.debounce :
          (/\ CW_DebounceFire(d)
           /\ CW_isExtensionEnabled(St)
           /\ d.el \notin DOMAIN cw.elementTracker
           /\ extractNumericValue(d.text) # null)
          => /\ d.el \in DOMAIN cw'.elementTracker
             /\ cw'.elementTracker[d.el].lastValue = extractNumericValue(d.text)]_vars

PendingTimers(e) == {d \in timers.debounce : d.el = e}

\* debounceTimers has an entry for an element exactly while one timer for it
\* is pending, and the pending timer carries the text stored by the last
\* processTextChanged call for the element
OneTimerPerElement ==
    \A e \in DOMAIN el :
        /\ Cardinality(PendingTimers(e)) <= 1
        /\ (e \in DOMAIN cw.debounceTimers) <=> (PendingTimers(e) # {})
        /\ \A d \in PendingTimers(e) : d.text = cw.debounceTimers[e]

\* C12: for each element at most one debounce timer is pending and
\* debounceTimers has an entry for it exactly while that timer is pending;
\* every text event reaches the state machine only through this timer: the
\* handler that receives the mutation records leaves the tracker and the
\* confirmation untouched and no element gains the focus effect in it.
\* Stated for the button-triggered watcher.
C12_OnlyThroughDebounce ==
    [][/\ OneTimerPerElement'
       /\ BT_Deliver =>
             /\ cw'.elementTracker = cw.elementTracker
             /\ cw'.detectedCountdownElement = cw.detectedCountdownElement
             /\ \A e \in DOMAIN el : ~NewlyFocused(e)]_vars

ConfirmedElements == {e \in DOMAIN el : el[e].countdownOverlay}

\* C13: in every state between two handlers, a non-null
\* detectedCountdownElement implies hasScrolledToCountdown, and at most one
\* element is the confirmed element (carries the focus effect of a
\* confirmation). Stated for the button-triggered watcher.
C13_ConfirmedImpliesScrolled ==
    /\ cw.detectedCountdownElement # NoElem => cw.hasScrolledToCountdown
    /\ Cardinality(ConfirmedElements) <= 1

\* the timers pending that tear down the focus effect of an element: the
\* timeout of applyFocusEffect and the timeouts of continueMonitoring
TeardownTimers(e) == (IF timers.focus = e THEN 1 ELSE 0) + timers.cont[e]

\* C28: at any time at most one focus-effect teardown timer is pending for
\* the confirmed element, scheduling a new one cancelling the previous one.
\* Stated for the button-triggered watcher.
C28_OneTeardownTimer ==
    \A e \in DOMAIN el : TeardownTimers(e) <= 1

\* the 5-second detection timeouts that have not fired nor been cleared
DetectionTimeouts ==
    (IF timers.detect.live THEN 1 ELSE 0) + timers.detect.orphans

\* a detection has started and stopCountdownDetection has not run since: the
\* observer of the detection is connected and its timeout is pending
DetectionInProgress ==
    cw.countdownObserver = "observing" /\ timers.detect.live

\* C35: in the button-triggered watcher, startCountdownDetection while a
\* detection is in progress is a no-op: isDetecting stays true from the start
\* of a detection until stopCountdownDetection, a click in between changes
\* nothing (no second observer, no rescan), and at most one 5-second
\* detection timeout is pending.
C35_StartWhileDetectingIsNoOp ==
    /\ [](DetectionInProgress => cw.isDetecting)
    /\ [](DetectionTimeouts <= 1)
    /\ [][(BT_Click /\ DetectionInProgress) =>
             UNCHANGED <<cw, el, timers, mutQueue>>]_vars

\* the element carries a focus effect: the class or the overlay
HasFocusEffect(e) == el[e].focusClass \/ el[e].countdownOverlay

\* the countdown of the element is over: its text is no longer numeric or
\* the element has left the document
CountdownOver(e) == extractNumericValue(el[e].text) = null \/ ~el[e].inDoc

\* C33: every focus effect applied to a confirmed countdown is eventually
\* removed once the countdown finishes: for a countdown that keeps
\* decreasing until its text becomes non-numeric (after values below
\* minimumDuration or not) or its element leaves the document, the focus
\* class and the overlay are eventually removed.
C33_EffectEventuallyRemoved ==
    \A e \in CW_Elems :
        (HasFocusEffect(e) /\ CountdownOver(e)) ~> ~HasFocusEffect(e)

\* C34: an element has an active poll interval only while it has an
\* elementTracker entry: whenever the tracker of an element is deleted
\* (null value, out-of-range value, countdown end, disable) its poll
\* interval is cleared too. Stated for the observer-driven watcher.
C34_PollOnlyWhileTracked ==
    \A e \in CW_Elems :
        el[e].countdownMonitorInterval => e \in DOMAIN cw.elementTracker

(***************************************************************************)
(* src/unnamed/part_002: the content script. The page has two ad elements  *)
(* that every detection pass finds (a1 in normal flow, a2 with position    *)
(* sticky); the state c is the script's module-level state together with   *)
(* the properties it hangs on each ad element and its overlay, the timers  *)
(* it has scheduled and the state of the background service worker.        *)
(***************************************************************************)
Ads == {"a1", "a2"}
Sticky == {"a2"}
AdOrder == <<"a1", "a2">>
NoAd == "none"

MaxLoads == 1          \* loadConfiguration calls in flight at once
MaxSticky == 1         \* pending sticky timeouts counted per element
maxAttempts == 3
StartTimeouts == 5     \* the timeouts startAdGuard schedules: 100, 300, 800, 1500, 3000 ms

AdInit ==
    [inDoc |-> TRUE,
     inMap |-> FALSE,              \* adElements.has(element)
     overlay |-> FALSE,            \* its overlay is attached to the document
     overlays |-> 0,               \* overlay elements in the document for it
     listeners |-> FALSE,          \* overlay._scrollListener, overlay._resizeListener
     firstObserver |-> FALSE,      \* the observer of setupOverlayListeners
     elementObserver |-> FALSE,    \* the observer overlay._elementObserver refers to
     visibilityInterval |-> FALSE,
     removalObserver |-> FALSE,    \* overlay._removalObserver (sticky overlays)
     stickyTimeouts |-> 0,         \* pending timeouts of the sticky delay
     leaked |-> {}]                \* what is still registered for removed overlays

\* a registry that never has the element
CS_neverRegistered(c, a) == FALSE

CS_isAdElement(c, a) == c.ad[a].inMap

\* the flag a1 and a2 have no ancestor among the ad elements
CS_hasParentAdOverlay(c, a) == FALSE

\* the overlay with its listeners, both element observers and the interval
CS_attachOverlay(c, a) ==
    [c EXCEPT !.ad[a].inMap = TRUE,
              !.ad[a].overlay = TRUE,
              !.ad[a].overlays = @ + 1,
              !.ad[a].listeners = TRUE,
              !.ad[a].firstObserver = TRUE,
              !.ad[a].elementObserver = TRUE,
              !.ad[a].visibilityInterval = TRUE]

CS_createOverlayForSticky(c, a) ==
    IF CS_hasParentAdOverlay(c, a) \/ CS_isAdElement(c, a) THEN c
    ELSE [CS_attachOverlay(c, a) EXCEPT !.ad[a].removalObserver = TRUE]

CS_addAdOverlay(c, a) ==
    IF CS_hasParentAdOverlay(c, a) \/ CS_isAdElement(c, a) THEN c
    ELSE IF a \in Sticky
    THEN [c EXCEPT !.ad[a].stickyTimeouts =
                      IF @ < MaxSticky THEN @ + 1 ELSE @]
    ELSE CS_attachOverlay(c, a)

\* adDetection.detectHighConfidenceAds, detectGoogleAds and the element loop
\* of adDetection.detectAndOverlayAds: each ad element in the document that
\* is not registered goes to addAdOverlay
RECURSIVE CS_overlayAll(_, _)
CS_overlayAll(c, as) ==
    IF as = <<>> THEN c
    ELSE LET a == Head(as)
             c1 == IF c.ad[a].inDoc /\ ~CS_isAdElement(c, a)
                      /\ ~CS_hasParentAdOverlay(c, a)
                   THEN CS_addAdOverlay(c, a)
                   ELSE c
         IN CS_overlayAll(c1, Tail(as))

CS_detectHighConfidenceAds(c) == CS_overlayAll(c, AdOrder)

CS_detectGoogleAds(c) == CS_overlayAll(c, AdOrder)

CS_detectAndOverlayAds(c) ==
    IF ~c.isInitialized \/ ~c.isEnabled \/ ~c.filterListLoaded
       \/ c.detectionInProgress
    THEN c
    ELSE [CS_overlayAll([c EXCEPT !.detectionInProgress = TRUE], AdOrder)
             EXCEPT !.tm.hc = TRUE, !.tm.reset = TRUE]

CS_setupMutationObserver(c) ==
    [c EXCEPT !.observer = "observing", !.records = NoAd]

CS_startAdGuard(c) ==
    LET c1 == CS_detectAndOverlayAds(CS_detectHighConfidenceAds(c))
        c2 == CS_setupMutationObserver([c1 EXCEPT !.tm.start = StartTimeouts])
    IN [c2 EXCEPT !.periodicDetectionInterval = TRUE]

CS_removeOverlayOf(c, a) ==
    IF ~c.ad[a].inMap THEN c
    ELSE [c EXCEPT !.ad[a].listeners = FALSE,
                   !.ad[a].elementObserver = FALSE,
                   !.ad[a].visibilityInterval = FALSE,
                   !.ad[a].overlay = FALSE,
                   !.ad[a].overlays = IF c.ad[a].overlay THEN @ - 1 ELSE @,
                   !.ad[a].firstObserver = FALSE,
                   !.ad[a].removalObserver = FALSE,
                   !.ad[a].leaked =
                       @ \cup (IF c.ad[a].firstObserver
                               THEN {"elementObserver"} ELSE {})
                         \cup (IF c.ad[a].removalObserver
                               THEN {"removalObserver"} ELSE {}),
                   !.ad[a].inMap = FALSE]

RECURSIVE CS_removeFrom(_, _)
CS_removeFrom(c, as) ==
    IF as = <<>> THEN c
    ELSE CS_removeFrom(CS_removeOverlayOf(c, Head(as)), Tail(as))

CS_removeAdOverlays(c) == CS_removeFrom(c, AdOrder)

CS_stopAdGuard(c) ==
    [CS_removeAdOverlays(c) EXCEPT !.observer = "null",
                                   !.records = NoAd,
                                   !.periodicDetectionInterval = FALSE,
                                   !.isInitialized = FALSE]

\* the callback of the page observer of setupMutationObserver, for one
\* record whose target is the ad element a
CS_observerCallback(c, a) ==
    IF ~c.isEnabled THEN c
    ELSE LET adsDetected == c.isEnabled /\ c.filterListLoaded
             c1 == IF adsDetected /\ ~CS_isAdElement(c, a)
                      /\ ~CS_hasParentAdOverlay(c, a)
                   THEN CS_addAdOverlay(c, a)
                   ELSE c
             c2 == IF adsDetected /\ ~c1.detectionInProgress
                   THEN [c1 EXCEPT !.tm.hc = TRUE]
                   ELSE c1
             c3 == IF c2.detectionTimeout = "null"
                   THEN [c2 EXCEPT !.detectionTimeout = "mutation"]
                   ELSE c2
         IN IF ~c3.detectionInProgress
            THEN [c3 EXCEPT !.tm.dao600 = TRUE, !.tm.hc1000 = TRUE]
            ELSE c3

RemoveAt(q, i) == [j \in 1..(Len(q) - 1) |-> IF j < i THEN q[j] ELSE q[j + 1]]

\* the continuation attached to the promise of loadConfiguration: the one of
\* initialize, or the one of handleMessage
CS_resolved(c, kind) ==
    IF kind = "init"
    THEN LET c1 == [c EXCEPT !.isInitialized = TRUE, !.listening = TRUE]
         IN IF c1.isEnabled THEN CS_startAdGuard(c1) ELSE CS_stopAdGuard(c1)
    ELSE CS_startAdGuard([c EXCEPT !.isInitialized = TRUE])

\* the response callback of requestState for the i-th load in flight
CS_response(c, i, ok) ==
    LET load == c.loads[i]
        rest == [c EXCEPT !.loads = RemoveAt(@, i)]
    IN IF ~ok
       THEN IF load.attempts < maxAttempts
            THEN [c EXCEPT !.loads[i].attempts = @ + 1]
            ELSE CS_resolved([rest EXCEPT !.isEnabled = FALSE], load.kind)
       ELSE LET c1 == [c EXCEPT !.isEnabled = c.extensionEnabled]
            IN IF c1.isEnabled /\ ~c1.filterListLoaded
               THEN [c1 EXCEPT !.loads[i].stage = "filter"]
               ELSE CS_resolved([c1 EXCEPT !.loads = RemoveAt(@, i)], load.kind)

\* loadFilterList settles: every load waiting for it resolves, oldest first
RECURSIVE CS_resolveWaiting(_)
CS_resolveWaiting(c) ==
    LET waiting == {i \in 1..Len(c.loads) : c.loads[i].stage = "filter"}
    IN IF waiting = {} THEN c
       ELSE LET i == CHOOSE j \in waiting : \A k \in waiting : j <= k
                kind == c.loads[i].kind
            IN CS_resolveWaiting(
                   CS_resolved([c EXCEPT !.loads = RemoveAt(@, i)], kind))

CS_loadFilterList(c) == CS_resolveWaiting([c EXCEPT !.filterListLoaded = TRUE])

CS_loadConfiguration(c, kind) ==
    [c EXCEPT !.loads = Append(@, [kind |-> kind, stage |-> "status",
                                   attempts |-> 1])]

CS_handleMessage(c, enabled) ==
    LET c1 == [c EXCEPT !.isEnabled = enabled,
                        !.lastToggle = IF enabled THEN "on" ELSE "off"]
    IN IF enabled
       THEN IF c1.isInitialized THEN CS_startAdGuard(c1)
            ELSE CS_loadConfiguration(c1, "toggle")
       ELSE CS_stopAdGuard(c1)

\* the background service worker stores the state, then the popup sends the
\* toggle to the content script of the tab
CS_toggle(c, enabled) ==
    LET c1 == [c EXCEPT !.extensionEnabled = enabled]
    IN IF c1.listening THEN CS_handleMessage(c1, enabled) ELSE c1

CS_stickyCallback(c, a) ==
    LET c1 == [c EXCEPT !.ad[a].stickyTimeouts = @ - 1]
    IN IF c1.ad[a].inDoc /\ ~CS_isAdElement(c1, a)
       THEN CS_createOverlayForSticky(c1, a)
       ELSE c1

\* the callback of overlay._removalObserver
CS_removalCallback(c, a) ==
    IF c.ad[a].inDoc THEN c
    ELSE LET own == c.ad[a].removalObserver
         IN [c EXCEPT !.ad[a].listeners = IF own THEN FALSE ELSE @,
                      !.ad[a].elementObserver = IF own THEN FALSE ELSE @,
                      !.ad[a].visibilityInterval = IF own THEN FALSE ELSE @,
                      !.ad[a].overlay = IF own THEN FALSE ELSE @,
                      !.ad[a].overlays =
                          IF own /\ c.ad[a].overlay THEN @ - 1 ELSE @,
                      !.ad[a].leaked =
                          (@ \ {"removalObserver"})
                          \cup (IF own /\ c.ad[a].firstObserver
                                THEN {"elementObserver"} ELSE {}),
                      !.ad[a].firstObserver = IF own THEN FALSE ELSE @,
                      !.ad[a].inMap = FALSE,
                      !.ad[a].removalObserver = FALSE]

CS_visibilityChange(c) ==
    IF c.isInitialized /\ c.isEnabled
    THEN [c EXCEPT !.detectionTimeout = "visibility"]
    ELSE c

CS_detectionTimeoutCallback(c) ==
    IF c.detectionTimeout = "mutation"
    THEN [(IF c.isEnabled /\ ~c.detectionInProgress
           THEN CS_detectHighConfidenceAds(c) ELSE c)
             EXCEPT !.detectionTimeout = "null"]
    ELSE [CS_detectAndOverlayAds(CS_detectHighConfidenceAds(c))
             EXCEPT !.detectionTimeout = "fired"]

\* the content script after its top-level code has run: initialize() has
\* called loadConfiguration, whose first getStatus request is in flight
CS_initialize(extensionEnabled) ==
    [isEnabled |-> FALSE,
     isInitialized |-> FALSE,
     observer |-> "null",
     filterListLoaded |-> FALSE,
     detectionInProgress |-> FALSE,
     detectionTimeout |-> "null",
     periodicDetectionInterval |-> FALSE,
     listening |-> FALSE,            \* handleMessage is registered
     extensionEnabled |-> extensionEnabled,
     loads |-> <<[kind |-> "init", stage |-> "status", attempts |-> 1]>>,
     records |-> NoAd,               \* the record queued for the page observer
     lastToggle |-> "none",          \* the last toggle handleMessage handled
     tm |-> [start |-> 0,            \* timeouts of startAdGuard not yet fired
             hc |-> FALSE,           \* a timeout that calls detectHighConfidenceAds
             reset |-> FALSE,        \* the reset of detectionInProgress
             dao600 |-> FALSE,
             hc1000 |-> FALSE],
     ad |-> [a \in Ads |-> AdInit]]

CS_Commit(c) ==
    /\ cs' = c
    /\ UNCHANGED <<cw, el, timers, mutQueue, hist, om, clf, pure>>

InitCS ==
    /\ \E extensionEnabled \in BOOLEAN : cs = CS_initialize(extensionEnabled)
    /\ cw = Unused /\ el = Unused /\ timers = Unused
    /\ mutQueue = Unused /\ hist = Unused /\ om = Unused /\ clf = Unused
    /\ pure = Unused

CS_Toggle(enabled) ==
    /\ enabled /\ ~cs.isInitialized /\ cs.listening => Len(cs.loads) < MaxLoads
    /\ CS_Commit(CS_toggle(cs, enabled))

CS_Response(i, ok) ==
    /\ i \in 1..Len(cs.loads)
    /\ cs.loads[i].stage = "status"
    /\ CS_Commit(CS_response(cs, i, ok))

CS_FilterListLoaded ==
    /\ \E i \in 1..Len(cs.loads) : cs.loads[i].stage = "filter"
    /\ CS_Commit(CS_loadFilterList(cs))

\* the timeouts of startAdGuard fire in the order of their delays; the third
\* (800 ms) calls detectHighConfidenceAds only
CS_StartTimeoutFire ==
    /\ cs.tm.start > 0
    /\ LET c1 == CS_detectHighConfidenceAds([cs EXCEPT !.tm.start = @ - 1])
       IN CS_Commit(IF cs.tm.start = 3 THEN c1 ELSE CS_detectAndOverlayAds(c1))

CS_HighConfidenceTimeoutFire ==
    /\ cs.tm.hc
    /\ CS_Commit(CS_detectHighConfidenceAds([cs EXCEPT !.tm.hc = FALSE]))

CS_ResetFire ==
    /\ cs.tm.reset
    /\ CS_Commit([cs EXCEPT !.tm.reset = FALSE, !.detectionInProgress = FALSE])

CS_DetectionTimeoutFire ==
    /\ cs.detectionTimeout \in {"mutation", "visibility"}
    /\ CS_Commit(CS_detectionTimeoutCallback(cs))

CS_Dao600Fire ==
    /\ cs.tm.dao600
    /\ LET c1 == [cs EXCEPT !.tm.dao600 = FALSE]
       IN CS_Commit(IF c1.isEnabled /\ ~c1.detectionInProgress
                    THEN CS_detectAndOverlayAds(c1) ELSE c1)

CS_Hc1000Fire ==
    /\ cs.tm.hc1000
    /\ LET c1 == [cs EXCEPT !.tm.hc1000 = FALSE]
       IN CS_Commit(IF c1.isEnabled /\ ~c1.detectionInProgress
                    THEN CS_detectGoogleAds(CS_detectHighConfidenceAds(c1))
                    ELSE c1)

CS_PeriodicFire ==
    /\ cs.periodicDetectionInterval
    /\ CS_Commit(IF cs.isEnabled
                 THEN CS_detectGoogleAds(CS_detectAndOverlayAds(
                          CS_detectHighConfidenceAds(cs)))
                 ELSE cs)

CS_StickyFire(a) ==
    /\ cs.ad[a].stickyTimeouts > 0
    /\ CS_Commit(CS_stickyCallback(cs, a))

\* the 500 ms interval finds the element visible and clears itself
CS_VisibilityIntervalFire(a) ==
    /\ cs.ad[a].visibilityInterval
    /\ CS_Commit([cs EXCEPT !.ad[a].visibilityInterval = FALSE])

CS_RemovalObserverFire(a) ==
    /\ cs.ad[a].removalObserver \/ "removalObserver" \in cs.ad[a].leaked
    /\ ~cs.ad[a].inDoc
    /\ CS_Commit(CS_removalCallback(cs, a))

CS_ObserverDeliver ==
    /\ cs.records # NoAd
    /\ CS_Commit(CS_observerCallback([cs EXCEPT !.records = NoAd], cs.records))

CS_VisibilityChange ==
    /\ cs.isInitialized /\ cs.isEnabled
    /\ CS_Commit(CS_visibilityChange(cs))

\* the page changes an attribute of an ad element
CS_PageMutate(a) ==
    /\ cs.observer = "observing" /\ cs.records = NoAd /\ cs.ad[a].inDoc
    /\ CS_Commit([cs EXCEPT !.records = a])

\* the page takes an ad element out of the document
CS_PageRemove(a) ==
    /\ cs.ad[a].inDoc
    /\ CS_Commit([cs EXCEPT !.ad[a].inDoc = FALSE])

NextCS ==
    \/ \E enabled \in BOOLEAN : CS_Toggle(enabled)
    \/ \E i \in 1..MaxLoads, ok \in BOOLEAN : CS_Response(i, ok)
    \/ CS_FilterListLoaded
    \/ CS_StartTimeoutFire
    \/ CS_HighConfidenceTimeoutFire
    \/ CS_ResetFire
    \/ CS_DetectionTimeoutFire
    \/ CS_Dao600Fire
    \/ CS_Hc1000Fire
    \/ CS_PeriodicFire
    \/ \E a \in Ads : CS_StickyFire(a)
    \/ \E a \in Ads : CS_VisibilityIntervalFire(a)
    \/ \E a \in Ads : CS_RemovalObserverFire(a)
    \/ CS_ObserverDeliver
    \/ CS_VisibilityChange
    \/ \E a \in Ads : CS_PageMutate(a)
    \/ \E a \in Ads : CS_PageRemove(a)

SpecCS == InitCS /\ [][NextCS]_vars

\* C4: in the content script no ad overlay is created between the handling
\* of a disable toggle and the handling of the next enable toggle, whatever
\* the interleaving of toggles, load completions and timers.
C4_NoOverlayWhileDisabled ==
    [][(cs.lastToggle = "off" /\ cs'.lastToggle = "off") =>
          \A a \in Ads : cs'.ad[a].overlay => cs.ad[a].overlay]_vars

CS_StopReturned == cs.isInitialized /\ ~cs'.isInitialized

CS_CleanAfterStop ==
    /\ \A a \in Ads : ~cs.ad[a].inMap /\ ~cs.ad[a].overlay
    /\ cs.observer = "null"
    /\ ~cs.periodicDetectionInterval
    /\ \A a \in Ads :
          /\ ~cs.ad[a].listeners /\ ~cs.ad[a].visibilityInterval
          /\ ~cs.ad[a].firstObserver /\ ~cs.ad[a].elementObserver
          /\ ~cs.ad[a].removalObserver /\ cs.ad[a].leaked = {}
          /\ cs.ad[a].stickyTimeouts = 0

\* C6: when stopAdGuard returns, adElements is empty, no overlay remains in
\* the document, the page observer and the periodic interval are null, and
\* no listener, interval, observer or pending timeout of a removed overlay
\* or of a pending sticky overlay remains registered.
C6_StopLeavesNothing == [][CS_StopReturned => CS_CleanAfterStop']_vars

Nodes == {"x1", "m1"}
Body == "body"
\* a second page, for the anchor resolver alone: the chain s1, p1, p2, body
FA_Nodes == {"s1", "p1", "p2"}
parentElement ==
    [e \in Nodes \cup FA_Nodes |->
        CASE e = "m1" -> "x1"
          [] e = "s1" -> "p1"
          [] e = "p1" -> "p2"
          [] OTHER -> Body]
MaxOverlays == 2
NoOverlay == 0

RECURSIVE OM_contains(_, _)
\* document.contains(e)
OM_contains(o, e) ==
    IF e = Body THEN TRUE
    ELSE o.attached[e] /\ OM_contains(o, parentElement[e])

\* the box of getBoundingClientRect: empty for an element outside the document
OM_box(o, e) == IF OM_contains(o, e) THEN o.box[e] ELSE "small"

\* the essentialElements list of findAdAnchorElement and isValidAnchorElement
OM_essentialElements ==
    {"body", "html", "head", "header", "footer", "nav", "main", "article",
     "section", "aside"}

OM_anyTag(o, e) == FALSE

OM_isEssential(o, e) == o.tag[e] \in OM_essentialElements

\* isValidAnchorElement: the test of the tag is made on the tag of the
\* element, the class and layout tests are its feature valid, the size test
\* is made on its box
OM_isValidAnchorElement(o, e) ==
    ~OM_isEssential(o, e) /\ o.valid[e] /\ OM_box(o, e) # "small"

RECURSIVE OM_walkUp(_, _, _)
OM_walkUp(o, e, adMarker) ==
    IF e = Body THEN adMarker
    ELSE IF OM_isEssential(o, e) THEN OM_walkUp(o, parentElement[e], adMarker)
    ELSE IF OM_isValidAnchorElement(o, e) /\ OM_box(o, e) # "small" THEN e
    ELSE OM_walkUp(o, parentElement[e], adMarker)

OM_findAdAnchorElement(o, adMarker) ==
    IF OM_isValidAnchorElement(o, adMarker) THEN adMarker
    ELSE OM_walkUp(o, parentElement[adMarker], adMarker)

\* the element createAdOverlay works on
OM_anchorOf(o, adMarker) ==
    IF o.variant = "anchor" THEN OM_findAdAnchorElement(o, adMarker)
    ELSE adMarker

\* coveredElements.has(anchor)
OM_alreadyCovered(o, anchor) == anchor \in o.covered

NewOverlay(anchor) ==
    [anchor |-> anchor,
     attached |-> TRUE,              \* the overlay element is in the document
     listeners |-> TRUE,             \* its scroll and resize handlers
     verificationTimeout |-> TRUE,   \* the 5 second check is pending
     scrollUpdatePending |-> FALSE,  \* an animation frame callback is scheduled
     resizeUpdatePending |-> FALSE]

\* tagName === 'body' || tagName === 'html'
OM_isBodyOrHtml(o, anchor) == o.tag[anchor] \in {"body", "html"}

OM_sizeUnchecked(o, anchor) == FALSE

\* the size safety checks: over 90% of the viewport width ("wide", "big"),
\* over 60% of its height ("tall", "big"), under 2 pixels ("small")
OM_sizeRejected(o, anchor) == OM_box(o, anchor) # "ok"

\* the call gets as far as the try block
OM_reachesTry(o, adMarker) ==
    LET anchor == OM_anchorOf(o, adMarker)
    IN /\ ~OM_alreadyCovered(o, anchor)
       /\ ~OM_isBodyOrHtml(o, anchor)
       /\ ~OM_sizeRejected(o, anchor)

\* the overlay element of a call whose appendChild threw: it never entered
\* the document and has no timeout, but setupOverlayPositionSync had already
\* registered its handlers
FailedOverlay(anchor) ==
    [NewOverlay(anchor) EXCEPT !.attached = FALSE,
                               !.verificationTimeout = FALSE]

OM_keepCovered(o, anchor, overlay) ==
    [o EXCEPT !.ov = Append(@, overlay)]

\* the catch block: coveredElements.delete(anchor), the marker attribute is
\* removed, null is returned
OM_catch(o, anchor, overlay) ==
    [o EXCEPT !.covered = @ \ {anchor},
              !.ov = Append(@, overlay),
              !.ret = NoOverlay]

\* createAdOverlay: the state after the call, with the returned handle in
\* ret; throws says whether inserting the overlay into the document throws
OM_createAdOverlay(o, adMarker, throws) ==
    LET anchor == OM_anchorOf(o, adMarker)
    IN IF OM_alreadyCovered(o, anchor)
       THEN [o EXCEPT !.ret = o.map[anchor]]
       ELSE IF OM_isBodyOrHtml(o, anchor)
       THEN [o EXCEPT !.ret = NoOverlay]
       ELSE IF OM_sizeRejected(o, anchor)
       THEN [o EXCEPT !.ret = NoOverlay]
       ELSE IF throws
       THEN OM_catch([o EXCEPT !.covered = @ \cup {anchor}], anchor,
                     FailedOverlay(anchor))
       ELSE [o EXCEPT !.covered = @ \cup {anchor},
                      !.ov = Append(@, NewOverlay(anchor)),
                      !.map[anchor] = Len(o.ov) + 1,
                      !.ret = Len(o.ov) + 1]

OM_removeAdOverlay(o, element, overlay) ==
    IF overlay = NoOverlay THEN o
    ELSE [o EXCEPT !.ov[overlay].verificationTimeout = FALSE,
                   !.ov[overlay].listeners = FALSE,
                   !.ov[overlay].attached = FALSE,
                   !.map[element] = NoOverlay,
                   !.covered = @ \ {element}]

NodeOrder == <<"x1", "m1">>

RECURSIVE OM_removeEach(_, _)
OM_removeEach(o, es) ==
    IF es = <<>> THEN o
    ELSE OM_removeEach(OM_removeAdOverlay(o, Head(es), o.map[Head(es)]),
                       Tail(es))

OM_removeAllOverlays(o) ==
    LET elementsToRemove == SelectSeq(NodeOrder,
                                LAMBDA e : e \in o.covered /\ OM_contains(o, e))
        o1 == OM_removeEach(o, elementsToRemove)
    IN [o1 EXCEPT !.covered = {}]

\* the callback of the verification timeout of one overlay
OM_verification(o, overlay) ==
    LET o1 == [o EXCEPT !.ov[overlay].verificationTimeout = FALSE]
        element == o.ov[overlay].anchor
    IN IF ~OM_contains(o1, element)
       THEN OM_removeAdOverlay(o1, element, overlay)
       ELSE o1

\* a scroll or resize event reaches the handlers registered on window
OM_scrollHandlers(o) ==
    [o EXCEPT !.ov = [i \in DOMAIN o.ov |->
                        IF o.ov[i].listeners
                        THEN [o.ov[i] EXCEPT !.scrollUpdatePending = TRUE]
                        ELSE o.ov[i]]]

OM_resizeHandlers(o) ==
    [o EXCEPT !.ov = [i \in DOMAIN o.ov |->
                        IF o.ov[i].listeners
                        THEN [o.ov[i] EXCEPT !.resizeUpdatePending = TRUE]
                        ELSE o.ov[i]]]

\* the browser runs the scheduled animation frame callbacks
OM_animationFrame(o) ==
    [o EXCEPT !.ov = [i \in DOMAIN o.ov |->
                        [o.ov[i] EXCEPT !.scrollUpdatePending = FALSE,
                                        !.resizeUpdatePending = FALSE]]]

\* history: the last call made, and for each anchor the handle returned by
\* the last createAdOverlay call for it since it was last uncovered
NoCall == [handle |-> NoOverlay, marker |-> "none"]
Other == [op |-> "other", marker |-> "none", anchor |-> "none",
          overlay |-> NoOverlay, prior |-> NoCall, threw |-> FALSE]

OM_init(variant, valid, box) ==
    [variant |-> variant,
     valid |-> valid,
     box |-> box,
     tag |-> [e \in Nodes |-> "div"],
     attached |-> [e \in Nodes |-> TRUE],
     covered |-> {},                             \* coveredElements
     map |-> [e \in Nodes |-> NoOverlay],        \* overlayMap
     ov |-> <<>>,                                \* the overlays created so far
     ret |-> NoOverlay,
     call |-> Other,
     since |-> [e \in Nodes |-> NoCall]]

OM_Commit(o) ==
    /\ om' = o
    /\ UNCHANGED <<cw, el, timers, mutQueue, hist, cs, clf, pure>>

InitOM ==
    /\ \E variant \in {"direct", "anchor"}, valid \in [Nodes -> BOOLEAN],
          box \in [Nodes -> {"ok", "big"}] : om = OM_init(variant, valid, box)
    /\ cw = Unused /\ el = Unused /\ timers = Unused
    /\ mutQueue = Unused /\ hist = Unused /\ cs = Unused /\ clf = Unused
    /\ pure = Unused

OM_Create(adMarker, throws) ==
    /\ Len(OM_createAdOverlay(om, adMarker, throws).ov) <= MaxOverlays
    /\ throws => OM_reachesTry(om, adMarker)
    /\ LET anchor == OM_anchorOf(om, adMarker)
           o1 == OM_createAdOverlay(om, adMarker, throws)
       IN OM_Commit([o1 EXCEPT
              !.call = [op |-> "create", marker |-> adMarker,
                        anchor |-> anchor, overlay |-> o1.ret,
                        prior |-> om.since[anchor], threw |-> throws],
              !.since[anchor] = [handle |-> o1.ret, marker |-> adMarker]])

OM_Remove(element) ==
    /\ om.map[element] # NoOverlay
    /\ OM_Commit([OM_removeAdOverlay(om, element, om.map[element]) EXCEPT
              !.call = [op |-> "remove", marker |-> "none",
                        anchor |-> element, overlay |-> om.map[element],
                        prior |-> NoCall, threw |-> FALSE],
              !.since[element] = NoCall])

OM_RemoveAll ==
    /\ om.covered # {}
    /\ OM_Commit([OM_removeAllOverlays(om) EXCEPT
              !.call = Other,
              !.since = [e \in Nodes |-> NoCall]])

OM_VerificationFire(overlay) ==
    /\ overlay \in DOMAIN om.ov
    /\ om.ov[overlay].verificationTimeout
    /\ LET o1 == OM_verification(om, overlay)
           element == om.ov[overlay].anchor
       IN OM_Commit([o1 EXCEPT
              !.call = Other,
              !.since[element] = IF o1.ov[overlay].attached THEN @ ELSE NoCall])

OM_Scroll ==
    /\ \E i \in DOMAIN om.ov : om.ov[i].listeners
    /\ OM_Commit([OM_scrollHandlers(om) EXCEPT !.call = Other])

OM_Resize ==
    /\ \E i \in DOMAIN om.ov : om.ov[i].listeners
    /\ OM_Commit([OM_resizeHandlers(om) EXCEPT !.call = Other])

OM_AnimationFrame ==
    /\ \E i \in DOMAIN om.ov :
          om.ov[i].scrollUpdatePending \/ om.ov[i].resizeUpdatePending
    /\ OM_Commit([OM_animationFrame(om) EXCEPT !.call = Other])

OM_PageDetach(e) ==
    /\ om.attached[e]
    /\ OM_Commit([om EXCEPT !.attached[e] = FALSE, !.call = Other])

OM_PageAttach(e) ==
    /\ ~om.attached[e]
    /\ OM_Commit([om EXCEPT !.attached[e] = TRUE, !.call = Other])

NextOM ==
    \/ \E adMarker \in Nodes, throws \in BOOLEAN : OM_Create(adMarker, throws)
    \/ \E element \in Nodes : OM_Remove(element)
    \/ OM_RemoveAll
    \/ \E overlay \in 1..MaxOverlays : OM_VerificationFire(overlay)
    \/ OM_Scroll
    \/ OM_Resize
    \/ OM_AnimationFrame
    \/ \E e \in Nodes : OM_PageDetach(e)
    \/ \E e \in Nodes : OM_PageAttach(e)

SpecOM == InitOM /\ [][NextOM]_vars

OverlaysOf(anchor) ==
    {i \in DOMAIN om.ov : om.ov[i].anchor = anchor /\ om.ov[i].attached}

\* C7: a createAdOverlay call for an anchor for which an earlier call
\* returned a handle, with no uncover of the anchor in between, returns that
\* same handle, and exactly one overlay element exists for the anchor; in the
\* anchor-resolving variant also when the two calls passed different signal
\* elements that resolve to the same anchor.
C7_SecondCallSameHandle ==
    (om.call.op = "create" /\ om.call.prior.handle # NoOverlay) =>
        /\ om.ret = om.call.prior.handle
        /\ Cardinality(OverlaysOf(om.call.anchor)) = 1

\* C8: after removeAdOverlay(X, overlay) returns, X is in neither
\* coveredElements nor overlayMap, the overlay is detached, and no
\* verification timeout, listener or scheduled position update of the
\* overlay remains.
C8_RemoveLeavesNothing ==
    om.call.op = "remove" =>
        LET x == om.call.anchor
            overlay == om.ov[om.call.overlay]
        IN /\ x \notin om.covered
           /\ om.map[x] = NoOverlay
           /\ ~overlay.attached
           /\ ~overlay.verificationTimeout
           /\ ~overlay.listeners
           /\ ~overlay.scrollUpdatePending
           /\ ~overlay.resizeUpdatePending

(***************************************************************************)
(* createAdOverlay over the pages it can be handed: the signal element m1   *)
(* with any tag, boxes of any size that the page changes, calls that       *)
(* throw. The position handlers and the timers of SpecOM are left out.     *)
(***************************************************************************)
CA_Tags == [Nodes -> {"div", "nav"}]
CA_Boxes == {"ok", "big", "small"}

InitCA ==
    /\ \E variant \in {"direct", "anchor"}, valid \in [Nodes -> BOOLEAN],
          box \in [Nodes -> CA_Boxes], tag \in CA_Tags :
          /\ tag["x1"] = "div"
          /\ om = [OM_init(variant, valid, box) EXCEPT !.tag = tag]
    /\ cw = Unused /\ el = Unused /\ timers = Unused
    /\ mutQueue = Unused /\ hist = Unused /\ cs = Unused /\ clf = Unused
    /\ pure = Unused

CA_PageResize(e, b) ==
    /\ om.box[e] # b
    /\ OM_Commit([om EXCEPT !.box[e] = b, !.call = Other])

NextCA ==
    \/ \E adMarker \in Nodes, throws \in BOOLEAN : OM_Create(adMarker, throws)
    \/ \E element \in Nodes : OM_Remove(element)
    \/ \E e \in Nodes, b \in CA_Boxes : CA_PageResize(e, b)

SpecCA == InitCA /\ [][NextCA]_vars

\* the step is a createAdOverlay call that works on the given anchor
CreateStep(anchor) == om'.call.op = "create" /\ om'.call.anchor = anchor

\* the call returned null and changed neither coveredElements nor overlayMap
\* nor the document
Rejected ==
    /\ om'.ret = NoOverlay
    /\ om'.covered = om.covered
    /\ om'.map = om.map
    /\ om'.ov = om.ov

\* C15 as written: createAdOverlay returns null and changes neither
\* coveredElements nor overlayMap nor the document whenever the box of the
\* anchor is wider than 90% of the viewport width, taller than 60% of its
\* height, or smaller than 2 pixels.
C15_RejectsBadSize ==
    [][\A anchor \in Nodes :
          (CreateStep(anchor) /\ OM_box(om, anchor) # "ok") => Rejected]_vars

\* C15, amended: the same for an anchor that is not already covered; for a
\* covered anchor the call returns the existing handle, whatever the box of
\* the anchor has become, and changes nothing.
C15_RejectsBadSizeUncovered ==
    [][\A anchor \in Nodes :
          (CreateStep(anchor) /\ OM_box(om, anchor) # "ok") =>
              IF OM_alreadyCovered(om, anchor)
              THEN /\ om'.ret = om.map[anchor]
                   /\ om'.covered = om.covered
                   /\ om'.map = om.map
                   /\ om'.ov = om.ov
              ELSE Rejected]_vars

C15_Witness ==
    /\ om.call.op = "create"
    /\ om.box[om.call.anchor] \in {"big", "small"}
    /\ om.call.anchor \notin om.covered
    /\ om.ret = NoOverlay
    /\ om.covered # {}

\* C16: createAdOverlay never covers an element whose tag is an essential
\* structural tag (body, html, head, header, footer, nav, main, article,
\* section, aside), also when that element is the signal element that the
\* anchor resolver returns as its fallback: a call that works on such an
\* anchor returns null and leaves the covered set unchanged.
C16_NeverCoversEssential ==
    [][\A anchor \in Nodes :
          (CreateStep(anchor) /\ OM_isEssential(om, anchor)) =>
              /\ om'.ret = NoOverlay
              /\ om'.covered = om.covered]_vars

\* C17: when inserting the overlay into the document throws inside
\* createAdOverlay, the call ends normally and returns null, the anchor is
\* absent from coveredElements (it carries no covered marker) and overlayMap
\* is untouched; a later call for the same anchor or for another one can
\* still succeed: the guards that let this call reach the try block still
\* pass for the same signal element, and coveredElements is what it was.
C17_ThrowRolledBack ==
    [][(om'.call.op = "create" /\ om'.call.threw) =>
          /\ om'.ret = NoOverlay
          /\ om'.call.anchor \notin om'.covered
          /\ om'.covered = om.covered
          /\ om'.map = om.map
          /\ OM_reachesTry(om', om'.call.marker)]_vars

\* a call succeeds for an anchor for which an earlier call threw
C17_Witness ==
    /\ om.call.op = "create"
    /\ ~om.call.threw
    /\ om.ret # NoOverlay
    /\ om.call.anchor \in om.covered
    /\ \E i \in DOMAIN om.ov :
          /\ i < om.ret
          /\ om.ov[i] = FailedOverlay(om.call.anchor)

\* C38: when createAdOverlay fails with an exception after
\* setupOverlayPositionSync registered the scroll and resize listeners,
\* nothing of the failed overlay survives the call: no listener, no timer,
\* no overlay element, no overlayMap entry and no coveredElements entry.
C38_FailedOverlayLeavesNothing ==
    (om.call.op = "create" /\ om.call.threw) =>
        LET overlay == om.ov[Len(om.ov)]
        IN /\ overlay.anchor = om.call.anchor
           /\ ~overlay.listeners
           /\ ~overlay.verificationTimeout
           /\ ~overlay.attached
           /\ om.map[om.call.anchor] = NoOverlay
           /\ om.call.anchor \notin om.covered

(***************************************************************************)
(* The overlay manager under the scheduling of the browser: a pending      *)
(* verification timeout fires and a requested animation frame runs. Calls  *)
(* of the manager and changes of the page happen or not.                   *)
(***************************************************************************)
SpecOMFair ==
    /\ SpecOM
    /\ \A overlay \in 1..MaxOverlays : WF_vars(OM_VerificationFire(overlay))
    /\ WF_vars(OM_AnimationFrame)

\* C18: whenever a covered anchor is out of the document, at any time after
\* its overlay was created, the overlay is eventually removed and the anchor
\* leaves the covered set (or the page has put the anchor back).
C18_DetachedAnchorUncovered ==
    \A e \in Nodes :
        (e \in om.covered /\ ~OM_contains(om, e))
            ~> (e \notin om.covered \/ OM_contains(om, e))

\* C26: the one-shot existence check scheduled by createAdOverlay never
\* changes coverage: when it fires, coveredElements, overlayMap and the
\* overlay element are the same as before, whether or not the anchor is
\* still in the document.
C26_VerificationKeepsCoverage ==
    [][\A overlay \in 1..MaxOverlays :
          OM_VerificationFire(overlay) =>
              /\ om'.covered = om.covered
              /\ om'.map = om.map
              /\ om'.ov[overlay].attached = om.ov[overlay].attached]_vars

\* C32: after removeAllOverlays returns, coveredElements is empty and, for
\* every anchor that was covered before the call, attached to the document
\* or not, overlayMap has no entry and no overlay element, verification
\* timeout or scroll/resize listener of it remains.
C32_RemoveAllLeavesNothing ==
    [][OM_RemoveAll =>
          /\ om'.covered = {}
          /\ \A e \in om.covered :
                /\ om'.map[e] = NoOverlay
                /\ \A i \in DOMAIN om.ov :
                      om.ov[i].anchor = e =>
                          /\ ~om'.ov[i].attached
                          /\ ~om'.ov[i].verificationTimeout
                          /\ ~om'.ov[i].listeners]_vars

(***************************************************************************)
(* findAdAnchorElement as a function of the page and the signal element:   *)
(* it is called once on an element of the chain s1, p1, p2, whose tags,    *)
(* class and layout features and boxes are any.                            *)
(***************************************************************************)
FA_Pages ==
    [tag : [FA_Nodes -> {"div", "nav"}],
     valid : [FA_Nodes -> BOOLEAN],
     box : [FA_Nodes -> {"ok", "big", "small"}],
     attached : {[e \in FA_Nodes |-> TRUE]}]

InitFA ==
    /\ \E page \in FA_Pages, adMarker \in FA_Nodes :
          pure = [page |-> page, adMarker |-> adMarker,
                  returned |-> FALSE, result |-> "none"]
    /\ cw = Unused /\ el = Unused /\ timers = Unused
    /\ mutQueue = Unused /\ hist = Unused /\ cs = Unused /\ om = Unused
    /\ clf = Unused

FA_Find ==
    /\ ~pure.returned
    /\ PureCommit([pure EXCEPT
           !.returned = TRUE,
           !.result = OM_findAdAnchorElement(pure.page, pure.adMarker)])

NextFA == FA_Find

SpecFA == InitFA /\ [][NextFA]_vars

RECURSIVE ProperAncestors(_)
\* the proper ancestors of an element strictly below body
ProperAncestors(e) ==
    IF parentElement[e] = Body THEN {}
    ELSE {parentElement[e]} \cup ProperAncestors(parentElement[e])

\* the element passes isValidAnchorElement: no essential tag, no layout
\* wrapper, a box larger than 1 x 1
PassesValidation(page, e) ==
    /\ page.tag[e] \notin OM_essentialElements
    /\ page.valid[e]
    /\ page.box[e] # "small"

\* C19: findAdAnchorElement returns the signal element when it passes
\* isValidAnchorElement; otherwise the nearest proper ancestor strictly below
\* body that has no essential tag, passes isValidAnchorElement and has a box
\* larger than 1 x 1; otherwise the signal element. The result is the signal
\* or one of its ancestors below body.
C19_NearestValidAncestor ==
    pure.returned =>
        LET page == pure.page
            signal == pure.adMarker
            good == {a \in ProperAncestors(signal) : PassesValidation(page, a)}
        IN /\ pure.result \in {signal} \cup ProperAncestors(signal)
           /\ PassesValidation(page, signal) => pure.result = signal
           /\ (~PassesValidation(page, signal) /\ good # {}) =>
                 /\ pure.result \in good
                 /\ \A a \in good : a \in {pure.result}
                                        \cup ProperAncestors(pure.result)
           /\ (~PassesValidation(page, signal) /\ good = {}) =>
                 pure.result = signal

\* the walk skips an essential parent and an invalid one and stops at p2
C19_Witness ==
    /\ pure.returned
    /\ pure.adMarker = "s1"
    /\ pure.page.tag = [e \in FA_Nodes |-> IF e = "p1" THEN "nav" ELSE "div"]
    /\ ~pure.page.valid["s1"]
    /\ pure.page.valid["p1"]
    /\ pure.result = "p2"

(***************************************************************************)
(* The classifier and the scorer of src/adDetection.js: isElementLikelyAd, *)
(* isElementLikelyContent and calculateAdConfidence, applied to one HTML   *)
(* element. An element is a record of the features the functions read.     *)
(* Strings are compared as the code compares them: Lower is toLowerCase    *)
(* and Substrings[s] lists the search strings of the code that s contains. *)
(***************************************************************************)
Lower(s) == IF s = "GoogleActiveViewElement" THEN "googleactiveviewelement" ELSE s

Substrings(s) ==
    CASE s = "adsbygoogle" -> {"ad", "adsbygoogle", "by"}
      [] s = "doubleclick" -> {"doubleclick"}
      [] s = "googleactiveviewelement" -> {"view"}
      [] s = "GoogleActiveViewElement" -> {"GoogleActiveViewElement"}
      [] s = "advertisement" -> {"ad", "advertisement"}
      [] s = "div-gpt-ad-1" -> {"ad", "div-gpt-ad", "gpt-ad"}
      [] s = "cookie-notice" -> {"cookie", "notice"}
      [] s = "nav" -> {"nav"}
      [] s = "https://ad.doubleclick.net/x" -> {"ad", "doubleclick"}
      [] OTHER -> {}

includes(s, needle) == needle \in Substrings(s)

\* element.className.toLowerCase().includes(needle)
classNameIncludes(e, needle) == \E c \in e.classes : includes(Lower(c), needle)

idIncludes(e, needle) == includes(Lower(e.id), needle)

\* the texts: nothing, 250 characters without any keyword of the code, and
\* 250 characters with the word "read"
TextLength(t) == IF t = "none" THEN 0 ELSE 250
TextKeywords(t) == IF t = "story" THEN {"read"} ELSE {}

ViewportHeight == 1000
Width(size) == CASE size = "300x250" -> 300 [] size = "tall" -> 300 [] OTHER -> 200
Height(size) == CASE size = "300x250" -> 250 [] size = "tall" -> 900 [] OTHER -> 100

Abs(x) == IF x < 0 THEN -x ELSE x

standardAdSizes ==
    {<<300, 250>>, <<728, 90>>, <<160, 600>>, <<336, 280>>, <<300, 600>>,
     <<468, 60>>, <<234, 60>>, <<120, 600>>, <<120, 240>>, <<180, 150>>,
     <<970, 90>>, <<360, 300>>, <<320, 50>>}

essentialElements ==
    {"body", "html", "head", "header", "footer", "nav", "main", "article",
     "section", "aside"}

contentElements ==
    {"h1", "h2", "h3", "h4", "h5", "h6", "p", "span", "div", "a", "img", "ul",
     "ol", "li", "article", "section"}

contentIndicators ==
    {"title", "header", "footer", "nav", "navigation", "menu", "brand",
     "content", "text", "post", "article", "page", "site", "entry", "headline",
     "caption", "description", "author", "date", "meta", "comment", "share",
     "social", "breadcrumb", "search", "widget", "sidebar", "main",
     "container", "wrapper", "section", "aside", "hgroup", "time", "summary",
     "details", "blockquote", "cite", "figcaption", "figure", "mark", "code",
     "pre", "kbd", "samp", "var", "data", "address"}

specificContentIndicators ==
    {"post-", "article-", "entry-", "blog-", "news-", "content-", "headline-",
     "author-", "date-", "time-", "comment-", "share-", "social-", "widget-",
     "sidebar-", "main-", "container-", "wrapper-", "section-", "navigation-",
     "menu-", "brand-", "header-", "footer-", "title-", "caption-",
     "description-", "breadcrumb-", "search-", "related-", "tag-", "category-",
     "archive-", "post-navigation", "comments-area", "author-box", "post-meta",
     "entry-header", "entry-content", "entry-footer"}

contentKeywords ==
    {"copyright", "about", "contact", "privacy", "terms", "policy", "home",
     "blog", "news", "article", "post", "category", "tag", "author",
     "published", "updated", "comments", "share", "related", "previous",
     "next", "archive", "search", "navigation", "menu", "subscribe",
     "newsletter", "rss", "feed", "permalink", "edit", "reply", "like",
     "dislike", "view", "views", "read", "reading", "time", "minutes", "words",
     "word", "ago", "by", "written"}

NoAdWord(str) ==
    /\ ~includes(str, "ad") /\ ~includes(str, "advertisement")
    /\ ~includes(str, "banner") /\ ~includes(str, "sponsor")

\* the tags of the model are neither img nor a, whose tests read alt and href
isElementLikelyContent(e) ==
    \/ \E i \in contentIndicators \cup specificContentIndicators :
          /\ classNameIncludes(e, i)
          /\ \A c \in e.classes : NoAdWord(Lower(c))
    \/ \E i \in contentIndicators \cup specificContentIndicators :
          idIncludes(e, i) /\ NoAdWord(Lower(e.id))
    \/ TextLength(e.text) > 50 /\ TextKeywords(e.text) \cap contentKeywords # {}
    \/ \E n \in {"comment", "reply", "message", "user", "share", "social",
                  "facebook", "twitter", "linkedin", "pinterest"} :
          classNameIncludes(e, n)

hasAttribute(e, name) == name \in e.attrs

\* element.classList.contains(token): the token itself, case-sensitive
classListContains(e, token) == token \in e.classes

matchesStandardAdSize(width, height) ==
    \E p \in standardAdSizes :
        \/ Abs(width - p[1]) <= 5 /\ Abs(height - p[2]) <= 5
        \/ Abs(width - p[2]) <= 5 /\ Abs(height - p[1]) <= 5

Points(cond, n) == IF cond THEN n ELSE 0

adIndicatorsCount(e) ==
    Points(hasAttribute(e, "data-ad-client"), 1)
    + Points(hasAttribute(e, "data-google-av-ad"), 1)
    + Points(hasAttribute(e, "data-google-av-element"), 1)
    + Points(hasAttribute(e, "data-ad-slot"), 1)
    + Points(hasAttribute(e, "data-ad-format"), 1)
    + Points(hasAttribute(e, "data-google-query-id"), 1)
    + Points(classListContains(e, "adsbygoogle"), 1)
    + Points(classListContains(e, "google-ads"), 1)
    + Points(classListContains(e, "advertisement"), 1)
    + Points(classListContains(e, "GoogleActiveViewElement"), 1)

\* the value of score when calculateAdConfidence reaches its return statement
CL_score(e) ==
    LET width == Width(e.size)
        height == Height(e.size)
        textLength == TextLength(e.text)
        \* textDensity > 0.1 with textDensity = textLength / (width * height)
        dense == width * height > 0 /\ textLength * 10 > width * height
    IN Points(hasAttribute(e, "data-ad-client")
              \/ hasAttribute(e, "data-google-av-ad")
              \/ hasAttribute(e, "data-google-av-element"), 6)
       + Points(classListContains(e, "adsbygoogle"), 6)
       + Points(e.tag = "iframe" /\ e.src # ""
                /\ (includes(Lower(e.src), "googlesyndication")
                    \/ includes(Lower(e.src), "doubleclick")), 6)
       + Points(\E n \in {"gpt-ad", "google_ads", "div-gpt-ad", "gpt_unit"} :
                   includes(e.id, n), 6)
       + Points(hasAttribute(e, "data-google-query-id"), 5)
       + Points(classListContains(e, "GoogleActiveViewElement"), 7)
       + Points(matchesStandardAdSize(width, height), 3)
       + Points(e.easylist, 2)
       - Points(e.inMain, 5)
       - Points(height * 10 > ViewportHeight * 7, 3)
       - Points(textLength > 200 \/ (dense /\ textLength > 50), 4)
       - Points(\E i \in {"cookie", "banner", "consent", "notice", "policy"} :
                   idIncludes(e, i) \/ classNameIncludes(e, i), 3)
       - Points(\E i \in {"nav", "header", "navigation", "menu"} :
                   \/ includes(e.tag, i)
                   \/ idIncludes(e, i) \/ classNameIncludes(e, i), 3)
       + Points(e.empty /\ (hasAttribute(e, "data-google-query-id")
                            \/ hasAttribute(e, "data-ad-client")), 2)
       + Points(adIndicatorsCount(e) >= 2, adIndicatorsCount(e))

CL_identity(x) == x

\* Math.max(0, score)
CL_max0(x) == IF x < 0 THEN 0 ELSE x

calculateAdConfidence(e) == CL_max0(CL_score(e))

CL_noClass(e) == FALSE

\* the first test of isElementLikelyAd, made on the lower-cased className
CL_highConfidenceClass(e) ==
    \/ classNameIncludes(e, "GoogleActiveViewElement")
    \/ classNameIncludes(e, "adsbygoogle")
    \/ classNameIncludes(e, "googlesyndication")
    \/ classNameIncludes(e, "doubleclick")

threshold == 4

isElementLikelyAd(e) ==
    IF CL_highConfidenceClass(e) THEN TRUE
    ELSE IF /\ e.tag = "iframe" /\ e.src # ""
            /\ \E n \in {"googlesyndication", "doubleclick", "googleadservices",
                          "googletagservices", "pagead", "tpc.goog"} :
                  includes(e.src, n)
    THEN TRUE
    ELSE IF \E a \in {"data-ad-client", "data-google-av-ad",
                       "data-google-av-element", "data-ad-slot",
                       "data-ad-format", "data-google-query-id"} :
               hasAttribute(e, a)
    THEN TRUE
    ELSE IF \E n \in {"gpt-ad", "google_ads", "div-gpt-ad", "gpt_unit"} :
               idIncludes(e, n)
    THEN TRUE
    ELSE IF \E n \in {"google-ads", "advertisement", "ad-container",
                       "ad-placement", "ad-unit", "ad-banner", "ad-box",
                       "pub_300x250", "pub_300x250m", "pub_728x90", "text-ad",
                       "text-ads", "afs_ads"} :
               classNameIncludes(e, n)
    THEN calculateAdConfidence(e) >= threshold
    ELSE IF e.tag \in essentialElements THEN FALSE
    ELSE IF /\ e.tag \in contentElements
            /\ \E n \in {"title", "header", "footer", "nav", "menu", "brand",
                          "content", "text", "post", "article", "page", "site"} :
                  classNameIncludes(e, n)
            /\ ~classNameIncludes(e, "ad")
            /\ ~classNameIncludes(e, "advertisement")
    THEN FALSE
    ELSE IF isElementLikelyContent(e) THEN FALSE
    ELSE calculateAdConfidence(e) >= threshold

\* the elements handed to the classifier
CL_Tags == {"div", "nav", "section", "ins", "iframe"}
CL_Classes == {"adsbygoogle", "doubleclick", "GoogleActiveViewElement",
               "advertisement"}
CL_Ids == {"", "div-gpt-ad-1", "cookie-notice"}
CL_Attrs == {"data-ad-client", "data-google-query-id"}
CL_Srcs == {"", "https://ad.doubleclick.net/x"}
CL_Sizes == {"300x250", "tall", "plain"}
CL_Texts == {"none", "filler", "story"}

CL_Elements ==
    {e \in [tag : CL_Tags, classes : SUBSET CL_Classes, id : CL_Ids,
            attrs : SUBSET CL_Attrs, src : CL_Srcs, size : CL_Sizes,
            text : CL_Texts, inMain : BOOLEAN, empty : BOOLEAN,
            easylist : BOOLEAN] :
        e.tag # "iframe" => e.src = ""}

CL_Commit(c) ==
    /\ clf' = c
    /\ UNCHANGED <<cw, el, timers, mutQueue, hist, cs, om, pure>>

InitCL ==
    /\ \E e \in CL_Elements :
          clf = [element |-> e, called |-> "none", likelyAd |-> FALSE, score |-> 0]
    /\ cw = Unused /\ el = Unused /\ timers = Unused
    /\ mutQueue = Unused /\ hist = Unused /\ cs = Unused /\ om = Unused
    /\ pure = Unused

CL_Classify ==
    /\ clf.called = "none"
    /\ CL_Commit([clf EXCEPT !.called = "isElementLikelyAd",
                             !.likelyAd = isElementLikelyAd(clf.element)])

CL_Score ==
    /\ clf.called = "none"
    /\ CL_Commit([clf EXCEPT !.called = "calculateAdConfidence",
                             !.score = calculateAdConfidence(clf.element)])

NextCL == CL_Classify \/ CL_Score

SpecCL == InitCL /\ [][NextCL]_vars

AdNetworkClasses == {"adsbygoogle", "googlesyndication", "doubleclick"}

\* C9: isElementLikelyAd returns true for every element that carries a
\* known ad-network class, whatever its tag, id, text, size and ancestors
\* are and whatever its confidence score is.
C9_AdNetworkClassIsAd ==
    (clf.called = "isElementLikelyAd"
     /\ clf.element.classes \cap AdNetworkClasses # {}) => clf.likelyAd

C9_Witness ==
    /\ clf.called = "isElementLikelyAd"
    /\ "adsbygoogle" \in clf.element.classes
    /\ clf.element.attrs = {}
    /\ CL_score(clf.element) < 0
    /\ clf.likelyAd

\* C37: isElementLikelyAd returns true for every element whose class list
\* contains GoogleActiveViewElement, whatever else the element is.
C37_ActiveViewClassIsAd ==
    (clf.called = "isElementLikelyAd"
     /\ "GoogleActiveViewElement" \in clf.element.classes) => clf.likelyAd

\* C10: calculateAdConfidence returns an integer greater than or equal to 0
\* for every combination of bonus and penalty signals, also when the
\* penalties exceed the bonuses.
C10_ScoreNotNegative ==
    clf.called = "calculateAdConfidence" => clf.score \in Nat

C10_Witness ==
    /\ clf.called = "calculateAdConfidence"
    /\ CL_score(clf.element) < 0
    /\ clf.score = 0

\* the four signals that accept an element at once: a known ad-network
\* class, an iframe with a known ad-network source, a known ad attribute, a
\* known ad-slot id pattern
ShortCircuitAccepted(e) ==
    \/ \E n \in AdNetworkClasses : classNameIncludes(e, n)
    \/ /\ e.tag = "iframe"
       /\ \E n \in {"googlesyndication", "doubleclick", "googleadservices",
                     "googletagservices", "pagead", "tpc.goog"} :
             includes(e.src, n)
    \/ \E a \in {"data-ad-client", "data-google-av-ad", "data-google-av-element",
                  "data-ad-slot", "data-ad-format", "data-google-query-id"} :
          hasAttribute(e, a)
    \/ \E n \in {"gpt-ad", "google_ads", "div-gpt-ad", "gpt_unit"} :
          idIncludes(e, n)

\* the tests that reject an element at once, its tag apart: a content tag
\* with a content class and no ad class, or a likely content element
ShortCircuitRejected(e) ==
    \/ /\ e.tag \in contentElements
       /\ \E n \in {"title", "header", "footer", "nav", "menu", "brand",
                     "content", "text", "post", "article", "page", "site"} :
             classNameIncludes(e, n)
       /\ ~classNameIncludes(e, "ad")
    \/ isElementLikelyContent(e)

TableScore(e) ==
    LET width == Width(e.size)
        height == Height(e.size)
        textLength == TextLength(e.text)
    IN Points(\E a \in {"data-ad-client", "data-google-av-ad",
                        "data-google-av-element"} : hasAttribute(e, a), 6)
       + Points(classListContains(e, "adsbygoogle"), 6)
       + Points(e.tag = "iframe"
                /\ \E d \in {"googlesyndication", "doubleclick"} :
                      includes(Lower(e.src), d), 6)
       + Points(\E n \in {"gpt-ad", "google_ads", "div-gpt-ad", "gpt_unit"} :
                   includes(e.id, n), 6)
       + Points(hasAttribute(e, "data-google-query-id"), 5)
       + Points(classListContains(e, "GoogleActiveViewElement"), 7)
       + Points(matchesStandardAdSize(width, height), 3)
       + Points(e.easylist, 2)
       + Points(adIndicatorsCount(e) >= 2, adIndicatorsCount(e))
       - Points(e.inMain, 5)
       - Points(height * 10 > ViewportHeight * 7, 3)
       - Points(textLength > 200
                \/ (textLength > 50 /\ width * height > 0
                    /\ textLength * 10 > width * height), 4)
       - Points(\E i \in {"cookie", "banner", "consent", "notice", "policy"} :
                   idIncludes(e, i) \/ classNameIncludes(e, i), 3)
       - Points(\E i \in {"nav", "header", "navigation", "menu"} :
                   \/ includes(e.tag, i)
                   \/ idIncludes(e, i) \/ classNameIncludes(e, i), 3)

\* C27: calculateAdConfidence(element) equals max(0, S), S being the sum of
\* the signals of the table and of nothing else: +6 ad-network attribute, +6
\* ad-network class, +6 iframe with ad-network source, +6 ad-slot id
\* pattern, +5 query-tracking attribute, +7 active-view class, +3 standard ad
\* size, +2 cosmetic filter match, +n for n >= 2 ad indicators; -5 main
\* content, -3 taller than 70% of the viewport, -4 text heavy, -3
\* cookie/consent, -3 navigation/menu/header.
C27_ScoreIsTableSum ==
    clf.called = "calculateAdConfidence" =>
        clf.score = (IF TableScore(clf.element) < 0 THEN 0
                     ELSE TableScore(clf.element))

(***************************************************************************)
(* extractNumericValue as a function of its text: it is called once on a   *)
(* text of one or two pieces.                                              *)
(***************************************************************************)
EX_Numbers == {0, 5, 45, 150}
EX_Minutes == {0, 2, 10, 100}
EX_Seconds == {0, 30, 75}
EX_Pieces ==
    {WordText}
    \cup {Text(k, n, 0) : k \in {"num", "wait", "in", "timer", "remaining"},
                          n \in EX_Numbers}
    \cup {ClockText(m, sec) : m \in EX_Minutes, sec \in EX_Seconds}

EX_Call(text) == pure = [text |-> text, returned |-> FALSE, result |-> null]

InitEX ==
    /\ \/ EX_Call(EmptyText)
       \/ \E t \in EX_Pieces : EX_Call(t)
       \/ \E t1 \in EX_Pieces, t2 \in EX_Pieces : EX_Call(SeqText(t1, t2))
    /\ cw = Unused /\ el = Unused /\ timers = Unused
    /\ mutQueue = Unused /\ hist = Unused /\ cs = Unused /\ om = Unused
    /\ clf = Unused

EX_Extract ==
    /\ ~pure.returned
    /\ PureCommit([pure EXCEPT !.returned = TRUE,
                              !.result = extractNumericValue(pure.text)])

NextEX == EX_Extract

SpecEX == InitEX /\ [][NextEX]_vars

\* the patterns that match the text with a value in [1,300]
Qualifying(t) ==
    {p \in patterns : /\ t.k # "empty"
                      /\ match(Pieces(t), p) >= ExtractLow
                      /\ match(Pieces(t), p) <= ExtractHigh}

\* C14: extractNumericValue returns null or an integer in [1,300]; the
\* result is the value of the first pattern, in the order of the array, that
\* both matches the text and yields a value in [1,300], a match with a value
\* outside that range not stopping the search; it is null when no pattern
\* qualifies.
C14_FirstQualifyingPattern ==
    pure.returned =>
        /\ pure.result = null
           \/ (pure.result >= ExtractLow /\ pure.result <= ExtractHigh)
        /\ Qualifying(pure.text) = {} => pure.result = null
        /\ \A p \in Qualifying(pure.text) :
              (\A q \in Qualifying(pure.text) : p <= q)
              => pure.result = match(Pieces(pure.text), p)

\* "10:00 timer:45": MM:SS matches with 600 and the timer pattern qualifies
C14_Witness ==
    /\ pure.returned
    /\ pure.text = SeqText(ClockText(10, 0), Text("timer", 45, 0))
    /\ pure.result = 45

(***************************************************************************)
(* parseCosmeticFilters (src/adDetection.js). A filter text is a sequence  *)
(* of lines; a line is a comment or a rule "domains SEP selector" with SEP *)
(* one of ## (hide), #@# (exception), #?# (extended); domains is a comma   *)
(* separated list of entries, each a domain name or ~name. A hostname is a *)
(* sequence of labels, "www.example.com" being <<"www","example","com">>.  *)
(***************************************************************************)
PF_Names == {<<"example", "com">>, <<"other", "org">>}
PF_Hostnames == PF_Names \cup {<<"www", "example", "com">>}
PF_Selectors == {".ad", ".banner"}

\* s.endsWith('.' + d) or s === d, on label sequences
IsSuffix(d, h) ==
    /\ Len(d) <= Len(h)
    /\ \A i \in 1..Len(d) : d[i] = h[Len(h) - Len(d) + i]

\* currentHostname.includes(d), for a whole-label d
IsInfix(d, h) ==
    \E k \in 0..(Len(h) - Len(d)) : \A i \in 1..Len(d) : d[i] = h[k + i]

\* trimmedLine.includes(sep): the separators do not contain one another and
\* no selector of the model contains one
lineIncludes(line, sep) == line.k = sep

\* the loop over domainList: shouldApply after it
RECURSIVE shouldApplyFrom(_, _, _)
shouldApplyFrom(domainList, currentHostname, shouldApply) ==
    IF domainList = <<>> THEN shouldApply
    ELSE LET domain == Head(domainList)
         IN IF domain.neg
            THEN IF IsInfix(domain.name, currentHostname) THEN FALSE
                 ELSE shouldApplyFrom(Tail(domainList), currentHostname,
                                      shouldApply)
            ELSE shouldApplyFrom(Tail(domainList), currentHostname,
                    shouldApply \/ IsSuffix(domain.name, currentHostname))

\* the loop over lines: the pair of selectors and domainSpecificSelectors
RECURSIVE parseLines(_, _, _)
parseLines(lines, currentHostname, acc) ==
    IF lines = <<>> THEN acc
    ELSE LET line == Head(lines)
             next ==
                 IF line.k = "!" THEN acc
                 ELSE IF lineIncludes(line, "##")
                 THEN IF line.domains # <<>>
                      THEN IF shouldApplyFrom(line.domains, currentHostname, FALSE)
                           THEN [acc EXCEPT !.domainSpecificSelectors =
                                               Append(@, line.selector)]
                           ELSE acc
                      ELSE [acc EXCEPT !.selectors = Append(@, line.selector)]
                 ELSE IF lineIncludes(line, "#?#")
                 THEN [acc EXCEPT !.selectors = Append(@, line.selector)]
                 ELSE acc
         IN parseLines(Tail(lines), currentHostname, next)

parseCosmeticFilters(filterText, currentHostname) ==
    LET r == parseLines(filterText, currentHostname,
                        [selectors |-> <<>>, domainSpecificSelectors |-> <<>>])
    IN r.selectors \o r.domainSpecificSelectors

PF_Entries == [neg : BOOLEAN, name : PF_Names]
PF_DomainLists ==
    {<<>>} \cup {<<d>> : d \in PF_Entries}
           \cup {<<d1, d2>> : d1 \in PF_Entries, d2 \in PF_Entries}
PF_Line(k, domains, selector) ==
    [k |-> k, domains |-> domains, selector |-> selector]
PF_Lines ==
    {PF_Line("!", <<>>, ".ad")}
    \cup {PF_Line("##", ds, sel) : ds \in PF_DomainLists, sel \in PF_Selectors}
    \cup {PF_Line("#@#", <<[neg |-> FALSE, name |-> n]>>, sel) :
             n \in PF_Names, sel \in PF_Selectors}
    \cup {PF_Line("#?#", <<>>, sel) : sel \in PF_Selectors}
PF_Texts == {<<l>> : l \in PF_Lines} \cup {<<l1, l2>> : l1 \in PF_Lines, l2 \in PF_Lines}

InitPF ==
    /\ \E filterText \in PF_Texts, currentHostname \in PF_Hostnames :
          pure = [filterText |-> filterText, currentHostname |-> currentHostname,
                  returned |-> FALSE, result |-> <<>>]
    /\ cw = Unused /\ el = Unused /\ timers = Unused
    /\ mutQueue = Unused /\ hist = Unused /\ cs = Unused /\ om = Unused
    /\ clf = Unused

PF_Parse ==
    /\ ~pure.returned
    /\ PureCommit([pure EXCEPT
           !.returned = TRUE,
           !.result = parseCosmeticFilters(pure.filterText,
                                           pure.currentHostname)])

NextPF == PF_Parse

SpecPF == InitPF /\ [][NextPF]_vars

\* the domain list names the hostname
NamesHostname(domains, h) ==
    /\ \E i \in DOMAIN domains : ~domains[i].neg /\ IsSuffix(domains[i].name, h)
    /\ ~\E i \in DOMAIN domains : domains[i].neg /\ IsInfix(domains[i].name, h)

\* an exception rule of the text for the hostname names the selector
Excepted(text, h, selector) ==
    \E i \in DOMAIN text :
        /\ text[i].k = "#@#"
        /\ text[i].selector = selector
        /\ NamesHostname(text[i].domains, h)

IsGlobalHide(line) == line.k = "##" /\ line.domains = <<>>

LineSelectors(ls) == [i \in DOMAIN ls |-> ls[i].selector]

\* C21: for a text of hide and exception rules, parseCosmeticFilters returns
\* the global '##' selectors, those that an exception rule ('#@#') for the
\* current hostname names left out, followed by the '##' selectors whose
\* domain list names the current hostname.
C21_ExceptionsSuppressGlobals ==
    (pure.returned /\ \A i \in DOMAIN pure.filterText :
                         pure.filterText[i].k # "#?#") =>
        LET text == pure.filterText
            h == pure.currentHostname
            globals == SelectSeq(text, LAMBDA l :
                          IsGlobalHide(l) /\ ~Excepted(text, h, l.selector))
            scoped == SelectSeq(text, LAMBDA l :
                          l.k = "##" /\ NamesHostname(l.domains, h))
        IN pure.result = LineSelectors(globals) \o LineSelectors(scoped)

(***************************************************************************)
(* loadFilterList (content script, src/unnamed/part_002). The promise      *)
(* chain fetch -> response.text() -> parse, with one catch at its end, is  *)
(* followed link by link; the state is kept in the variable pure.          *)
(***************************************************************************)
MaxCalls == 3          \* calls of loadFilterList in a session

fallbackSelectors ==
    <<".adsbygoogle", ".ad-container", ".advertisement", ".ad-placement",
      ".google-ads", ".adsense", ".doubleclick", ".ad-slot", ".ad-banner",
      ".ad-box", ".ad-unit", ".pub_300x250", ".pub_300x250m", ".pub_728x90",
      ".text-ad", ".text-ad-links", ".text-ads", ".text-adv",
      "[id*=\"ad\" i]", "[class*=\"ad\" i]", "[id*=\"advertisement\" i]",
      "[class*=\"advertisement\" i]", "[id*=\"banner\" i]",
      "[class*=\"banner\" i]", "[data-ad-client]", "[data-google-ads]",
      "[data-ad-slot]", "[data-ad-format]", ".afs_ads", ".adsbygoogle",
      ".google_ads", ".googlesyndication">>

LF_Texts == {<<>>} \cup {<<l>> : l \in PF_Lines}

LF_init(hostname) ==
    [hostname |-> hostname,
     cosmeticSelectors |-> <<>>,
     filterListLoaded |-> FALSE,
     filterLoadPromise |-> "null",   \* null, or the state of the promise
     stage |-> "none",               \* the link of the chain that is pending
     body |-> <<>>,                  \* the body of the response being read
     calls |-> 0,                    \* calls of loadFilterList so far
     fetches |-> 0,                  \* calls of fetch so far
     failed |-> FALSE]               \* the catch handler has run

\* a failure that escapes the chain: the promise is rejected
LF_rethrow(c) ==
    [c EXCEPT !.filterLoadPromise = "rejected", !.stage = "none",
              !.body = <<>>, !.failed = TRUE]

\* the catch handler
LF_catch(c) ==
    [c EXCEPT !.cosmeticSelectors = fallbackSelectors,
              !.filterListLoaded = TRUE,
              !.filterLoadPromise = "fulfilled",
              !.stage = "none",
              !.body = <<>>,
              !.failed = TRUE]

\* the second then handler
LF_parsed(c) ==
    [c EXCEPT !.cosmeticSelectors = parseCosmeticFilters(c.body, c.hostname),
              !.filterListLoaded = TRUE,
              !.filterLoadPromise = "fulfilled",
              !.stage = "none",
              !.body = <<>>]

LF_loadFilterList(c) ==
    LET c1 == [c EXCEPT !.calls = @ + 1]
    IN IF c.filterLoadPromise # "null" THEN c1
       ELSE [c1 EXCEPT !.filterLoadPromise = "pending", !.stage = "fetch",
                       !.fetches = @ + 1]

InitLF ==
    /\ \E hostname \in PF_Hostnames : pure = LF_init(hostname)
    /\ cw = Unused /\ el = Unused /\ timers = Unused
    /\ mutQueue = Unused /\ hist = Unused /\ cs = Unused /\ om = Unused
    /\ clf = Unused

LF_Call ==
    /\ pure.calls < MaxCalls
    /\ PureCommit(LF_loadFilterList(pure))

\* fetch settles: fulfilled with a response of some body, or rejected
LF_FetchSettle(ok, text) ==
    /\ pure.stage = "fetch"
    /\ PureCommit(IF ok THEN [pure EXCEPT !.stage = "text", !.body = text]
                  ELSE LF_catch(pure))

\* response.text() settles; the handler that parses it may throw
LF_TextSettle(ok, throws) ==
    /\ pure.stage = "text"
    /\ PureCommit(IF ok /\ ~throws THEN LF_parsed(pure) ELSE LF_catch(pure))

NextLF ==
    \/ LF_Call
    \/ \E ok \in BOOLEAN, text \in LF_Texts : LF_FetchSettle(ok, text)
    \/ \E ok \in BOOLEAN, throws \in BOOLEAN : LF_TextSettle(ok, throws)

SpecLF == InitLF /\ [][NextLF]_vars

\* the network request settles and the promise jobs run
SpecLFFair ==
    /\ SpecLF
    /\ WF_vars(\E ok \in BOOLEAN, text \in LF_Texts : LF_FetchSettle(ok, text))
    /\ WF_vars(\E ok \in BOOLEAN, throws \in BOOLEAN : LF_TextSettle(ok, throws))

\* C22: once loadFilterList has been called, filterListLoaded eventually
\* becomes true, whether the fetch succeeds or fails; after a failure the
\* selector list is the built-in fallback list and the promise is not
\* rejected; the filter list is fetched at most once however many calls.
C22_LoadSettlesOnce ==
    /\ (pure.calls > 0) ~> pure.filterListLoaded
    /\ [](pure.failed => /\ pure.cosmeticSelectors = fallbackSelectors
                         /\ pure.filterListLoaded)
    /\ [](pure.filterLoadPromise # "rejected")
    /\ [](pure.fetches <= 1)

C22_Witness ==
    /\ pure.failed /\ pure.filterListLoaded /\ pure.calls = MaxCalls
    /\ pure.cosmeticSelectors = fallbackSelectors /\ pure.fetches = 1

(***************************************************************************)
(* extractNumericValue as a method of the watcher: two watchers, each in a *)
(* state of its own, are handed the same text.                             *)
(***************************************************************************)
\* a method that consults and records the session
XP_sessionExtract(c, text) ==
    [cw |-> [c EXCEPT !.hasScrolledToCountdown = TRUE],
     ret |-> IF c.hasScrolledToCountdown THEN null
             ELSE extractNumericValue(text)]

\* a method call as a state transformer: the watcher after it and the value
\* it returns. The body reads no field of this and assigns none.
CW_extractNumericValue(c, text) ==
    [cw |-> c, ret |-> extractNumericValue(text)]

XP_Trackers ==
    {EmptyMap,
     MapPut(EmptyMap, "e1", [lastValue |-> 45, consecutiveDecreases |-> 1])}

XP_Watchers ==
    {[CW_constructor(enabled).cw EXCEPT !.hasScrolledToCountdown = scrolled,
                                        !.elementTracker = tracker] :
        enabled \in BOOLEAN, scrolled \in BOOLEAN, tracker \in XP_Trackers}

XP_Start(text) ==
    \E c1 \in XP_Watchers, c2 \in XP_Watchers :
        pure = [text |-> text,
                before |-> <<c1, c2>>,
                watcher |-> <<c1, c2>>,
                returned |-> <<FALSE, FALSE>>,
                result |-> <<null, null>>]

InitXP ==
    /\ \/ XP_Start(EmptyText)
       \/ \E t \in EX_Pieces : XP_Start(t)
    /\ cw = Unused /\ el = Unused /\ timers = Unused
    /\ mutQueue = Unused /\ hist = Unused /\ cs = Unused /\ om = Unused
    /\ clf = Unused

XP_Extract(i) ==
    /\ ~pure.returned[i]
    /\ LET r == CW_extractNumericValue(pure.watcher[i], pure.text)
       IN PureCommit([pure EXCEPT !.watcher[i] = r.cw,
                                 !.returned[i] = TRUE,
                                 !.result[i] = r.ret])

NextXP == \E i \in 1..2 : XP_Extract(i)

SpecXP == InitXP /\ [][NextXP]_vars

MaxSeen == 5           \* calls of checkForNumericChange in a behaviour

NC_Texts == {WordText, NumText(14), NumText(26), NumText(28), NumText(30),
             ClockText(2, 30)}

NC_Elem == "e1"

NC_Commit(s, text) ==
    /\ cw' = s.cw
    /\ el' = s.el
    /\ timers' = s.tm
    /\ mutQueue' = s.q
    /\ hist' = s.h
    /\ pure' = [pure EXCEPT !.seen = Append(@, text)]
    /\ UNCHANGED <<cs, om, clf>>

NC_Start(variant, s) ==
    /\ cw = s.cw
    /\ el = s.el
    /\ timers = s.tm
    /\ mutQueue = s.q
    /\ hist = s.h
    /\ pure = [variant |-> variant, seen |-> <<>>]
    /\ cs = Unused /\ om = Unused /\ clf = Unused

InitNC ==
    \/ NC_Start("automatic", CW_constructor(TRUE))
    \/ NC_Start("button",
                BT_startCountdownDetection(
                    BT_constructor(TRUE, [e \in Elems |-> WordText])))

CW_Observe(text) ==
    /\ pure.variant = "automatic"
    /\ Len(pure.seen) < MaxSeen
    /\ NC_Commit(CW_checkForNumericChange(St, NC_Elem, text), text)

BT_Observe(text) ==
    /\ pure.variant = "button"
    /\ Len(pure.seen) < MaxSeen
    /\ NC_Commit(BT_checkForNumericChange(St, NC_Elem, text), text)

NextNC ==
    \/ \E text \in NC_Texts : CW_Observe(text)
    \/ \E text \in NC_Texts : BT_Observe(text)

SpecNC == InitNC /\ [][NextNC]_vars

\* the value the handler extracted in the step
NC_Value == extractNumericValue(pure'.seen[Len(pure'.seen)])

NC_Step == Len(pure'.seen) = Len(pure.seen) + 1

NC_Tracked == NC_Elem \in DOMAIN cw.elementTracker

\* the band checkForNumericChange accepts before it looks at the tracker
NC_OutOfBand(v) ==
    IF pure.variant = "automatic"
    THEN v < minimumDuration \/ v > maximumDuration
    ELSE v < ScanLow \/ v > ScanHigh

\* C24: in checkForNumericChange, a null extracted value or a value outside
\* the accepted band deletes the element's tracker when the element is
\* tracked; when it is not tracked the call changes nothing: tracker map,
\* session flags, timers and poll intervals are as before and no tracker is
\* created.
C24_RejectedValueUntracks ==
    [][(NC_Step /\ (NC_Value = null \/ NC_OutOfBand(NC_Value))) =>
          IF NC_Tracked
          THEN NC_Elem \notin DOMAIN cw'.elementTracker
          ELSE cw' = cw /\ timers' = timers /\ el' = el]_vars

NC_Values(seq) == [i \in DOMAIN seq |-> NumText(seq[i])]

MaxPasses == 3         \* runs of the observer's callback in a behaviour

DO_init ==
    [detectionInProgress |-> FALSE,
     timeouts |-> 0,        \* pending timeouts of detectionCallback
     passes |-> 0,          \* calls of callback so far
     threw |-> FALSE]       \* the last call of callback threw

\* a callback that marks a pass as started without scheduling it
DO_flagOnly(c, newNodesAdded) ==
    IF c.detectionInProgress THEN c
    ELSE IF newNodesAdded THEN [c EXCEPT !.detectionInProgress = TRUE]
    ELSE c

\* detectionCallback(mutations)
DO_detectionCallback(c, newNodesAdded) ==
    IF c.detectionInProgress THEN c
    ELSE IF newNodesAdded
    THEN [c EXCEPT !.detectionInProgress = TRUE, !.timeouts = @ + 1]
    ELSE c

\* a timeout callback without the finally block
DO_unprotected(c, throws) ==
    [c EXCEPT !.timeouts = @ - 1, !.passes = @ + 1, !.threw = throws,
              !.detectionInProgress = throws]

\* the timeout callback: try { callback() } finally { reset }
DO_timeout(c, throws) ==
    [c EXCEPT !.timeouts = @ - 1, !.passes = @ + 1, !.threw = throws,
              !.detectionInProgress = FALSE]

DP_Scripts ==
    {[CS_initialize(TRUE) EXCEPT !.isInitialized = TRUE,
                                 !.isEnabled = enabled,
                                 !.filterListLoaded = loaded,
                                 !.loads = <<>>] :
        enabled \in BOOLEAN, loaded \in BOOLEAN}

InitDP ==
    /\ cs \in DP_Scripts
    /\ pure = DO_init
    /\ cw = Unused /\ el = Unused /\ timers = Unused
    /\ mutQueue = Unused /\ hist = Unused /\ om = Unused /\ clf = Unused

\* the observer delivers records
DO_Deliver(newNodesAdded) ==
    /\ pure.passes + pure.timeouts < MaxPasses
    /\ PureCommit(DO_detectionCallback(pure, newNodesAdded))

DO_TimeoutFire(throws) ==
    /\ pure.timeouts > 0
    /\ PureCommit(DO_timeout(pure, throws))

\* a timer of startAdGuard calls the content script's detectAndOverlayAds;
\* startAdGuard runs once isInitialized is set
DP_Detect ==
    /\ cs.isInitialized
    /\ CS_Commit(CS_detectAndOverlayAds(cs))

NextDP ==
    \/ \E newNodesAdded \in BOOLEAN : DO_Deliver(newNodesAdded)
    \/ \E throws \in BOOLEAN : DO_TimeoutFire(throws)
    \/ DP_Detect
    \/ CS_ResetFire
    \/ CS_HighConfidenceTimeoutFire
    \/ \E a \in Ads : CS_PageRemove(a)

SpecDP == InitDP /\ [][NextDP]_vars

\* timeouts that are due fire
SpecDPFair ==
    /\ SpecDP
    /\ WF_vars(\E throws \in BOOLEAN : DO_TimeoutFire(throws))
    /\ WF_vars(CS_ResetFire)

\* C29: while detectionInProgress is true the guard starts and schedules no
\* further detection pass, and the flag always returns to false after the
\* pass, also when the detection callback throws.
C29_FlagGuardsAndReturns ==
    /\ [][\A newNodesAdded \in BOOLEAN :
             (DO_Deliver(newNodesAdded) /\ pure.detectionInProgress)
                 => pure' = pure]_vars
    /\ [](pure.timeouts <= 1)
    /\ [][(DP_Detect /\ cs.detectionInProgress) => cs' = cs]_vars
    /\ pure.detectionInProgress ~> ~pure.detectionInProgress
    /\ cs.detectionInProgress ~> ~cs.detectionInProgress

\* the callback of the observer has thrown and the flag is false again, while
\* a pass of the content script is in progress
C29_Witness ==
    /\ pure.threw /\ ~pure.detectionInProgress /\ pure.passes = 2
    /\ cs.detectionInProgress /\ cs.tm.reset

(***************************************************************************)
(* The selector loop of detectAndOverlayAds, in src/adDetection.js and in  *)
(* src/unnamed/part_003. A selector is one of five kinds: "valid";         *)
(* "unsupported", with a pseudo-class sanitizeSelector refuses;            *)
(* "repairable", rejected by querySelector until sanitizeSelector strips   *)
(* it; "invalid", rejected also when stripped; "fragile", accepted by      *)
(* sanitizeSelector but throwing inside the inner try block. A selector    *)
(* list is given in blocks of equal selectors.                             *)
(***************************************************************************)
selectorLimit == 100

DA_Kinds == {"valid", "unsupported", "repairable", "invalid", "fragile"}
DA_Counts == {1, 2, 100}
DA_Blocks == [kind : DA_Kinds, n : DA_Counts]
DA_Lists == {<<>>} \cup {<<b>> : b \in DA_Blocks}
                  \cup {<<b1, b2>> : b1 \in DA_Blocks, b2 \in DA_Blocks}

RECURSIVE DA_Expand(_)
DA_Expand(blocks) ==
    IF blocks = <<>> THEN <<>>
    ELSE [i \in 1..Head(blocks).n |-> Head(blocks).kind]
         \o DA_Expand(Tail(blocks))

\* null, or the selector to query
sanitizeSelector(selector) ==
    CASE selector = "unsupported" -> "null"
      [] selector = "valid" -> selector
      [] selector = "fragile" -> selector
      [] selector = "repairable" -> "valid"
      [] OTHER -> "null"

\* the test that ends the loop at its top
DA_limitReached(variant, selectorsApplied) ==
    variant = "part_003" /\ selectorsApplied >= selectorLimit

\* one iteration of the loop; stopped once the break was taken
DA_iteration(variant, cosmeticSelectors, i, r) ==
    IF r.stopped THEN r
    ELSE IF DA_limitReached(variant, r.selectorsApplied)
    THEN [r EXCEPT !.stopped = TRUE]
    ELSE IF sanitizeSelector(cosmeticSelectors[i]) \in {"null", "fragile"}
    THEN [r EXCEPT !.selectorsSkipped = @ + 1]
    ELSE [r EXCEPT !.selectorsApplied = @ + 1, !.queried = Append(@, i)]

\* the iterations for the selectors lo .. hi, in order
RECURSIVE DA_loop(_, _, _, _, _)
DA_loop(variant, cosmeticSelectors, lo, hi, r) ==
    IF lo = hi THEN DA_iteration(variant, cosmeticSelectors, lo, r)
    ELSE LET mid == (lo + hi) \div 2
             first == DA_loop(variant, cosmeticSelectors, lo, mid, r)
         IN IF first.stopped THEN first
            ELSE DA_loop(variant, cosmeticSelectors, mid + 1, hi, first)

DA_detectAndOverlayAds(variant, cosmeticSelectors) ==
    LET r0 == [selectorsApplied |-> 0, selectorsSkipped |-> 0,
               queried |-> <<>>,      \* the selectors handed to querySelectorAll
               stopped |-> FALSE]
    IN IF Len(cosmeticSelectors) = 0 THEN r0
       ELSE DA_loop(variant, cosmeticSelectors, 1, Len(cosmeticSelectors), r0)

InitDA ==
    /\ \E variant \in {"adDetection", "part_003"}, blocks \in DA_Lists :
          pure = [variant |-> variant, blocks |-> blocks, returned |-> FALSE,
                  selectorsApplied |-> 0, selectorsSkipped |-> 0,
                  queried |-> <<>>]
    /\ cw = Unused /\ el = Unused /\ timers = Unused
    /\ mutQueue = Unused /\ hist = Unused /\ cs = Unused /\ om = Unused
    /\ clf = Unused

DA_Detect ==
    /\ ~pure.returned
    /\ LET r == DA_detectAndOverlayAds(pure.variant, DA_Expand(pure.blocks))
       IN PureCommit([pure EXCEPT
              !.returned = TRUE,
              !.selectorsApplied = r.selectorsApplied,
              !.selectorsSkipped = r.selectorsSkipped,
              !.queried = r.queried])

NextDA == DA_Detect

SpecDA == InitDA /\ [][NextDA]_vars

\* C30: in detectAndOverlayAds a selector that cannot be sanitized or that
\* throws when queried is skipped and counted and never aborts the pass:
\* for every selector list, every selector that is valid (as written or
\* once sanitized) is still applied, and at the end selectorsApplied +
\* selectorsSkipped equals the number of selectors of the list.
C30_EverySelectorCounted ==
    pure.returned =>
        LET cosmeticSelectors == DA_Expand(pure.blocks)
        IN /\ \A i \in DOMAIN cosmeticSelectors :
                 cosmeticSelectors[i] \in {"valid", "repairable"}
                     => \E k \in DOMAIN pure.queried : pure.queried[k] = i
           /\ pure.selectorsApplied + pure.selectorsSkipped
                 = Len(cosmeticSelectors)

(***************************************************************************)
(* src/unnamed/part_002 on a page of nested elements: the chain s1 inside  *)
(* p1 inside p2 inside body. The page gives an element an ad attribute     *)
(* (data-google-query-id); each change queues an attribute record for the  *)
(* script's MutationObserver, whose callback handles the queued records in *)
(* the order of the changes. pure holds adElements, the elements that      *)
(* carry the attribute and the record queue. The elements pass the tag,    *)
(* class and size rules of addAdOverlay and are not sticky.                *)
(***************************************************************************)
AN_Elems == FA_Nodes

\* document order
AN_Order == <<"p2", "p1", "s1">>

AN_isAdElement(c, element) == element \in c.adElements

RECURSIVE AN_parentWalk(_, _)
AN_parentWalk(c, parent) ==
    IF parent = Body THEN FALSE
    ELSE IF AN_isAdElement(c, parent) THEN TRUE
    ELSE AN_parentWalk(c, parentElement[parent])

AN_hasParentAdOverlay(c, element) ==
    AN_parentWalk(c, parentElement[element])

AN_addAdOverlay(c, element) ==
    IF AN_hasParentAdOverlay(c, element) THEN c
    ELSE IF AN_isAdElement(c, element) THEN c
    ELSE [c EXCEPT !.adElements = @ \cup {element}]

\* the attributes branch of the observer callback for one record
AN_attributeRecord(c, target) ==
    IF target \in c.marked /\ ~AN_isAdElement(c, target)
       /\ ~AN_hasParentAdOverlay(c, target)
    THEN AN_addAdOverlay(c, target)
    ELSE c

RECURSIVE AN_records(_, _)
AN_records(c, mutations) ==
    IF mutations = <<>> THEN c
    ELSE AN_records(AN_attributeRecord(c, Head(mutations)), Tail(mutations))

\* a detection pass: querySelectorAll returns the elements in document order
AN_detect(c) ==
    AN_records(c, SelectSeq(AN_Order, LAMBDA e : e \in c.marked))

\* removeAdOverlays
AN_removeAdOverlays(c) == [c EXCEPT !.adElements = {}]

InitAN ==
    /\ pure = [adElements |-> {}, marked |-> {}, queue |-> <<>>]
    /\ cw = Unused /\ el = Unused /\ timers = Unused /\ mutQueue = Unused
    /\ hist = Unused /\ cs = Unused /\ om = Unused /\ clf = Unused

AN_PageMark(e) ==
    /\ e \notin pure.marked
    /\ PureCommit([pure EXCEPT !.marked = @ \cup {e},
                               !.queue = Append(@, e)])

AN_PageUnmark(e) ==
    /\ e \in pure.marked
    /\ Len(pure.queue) < Cardinality(AN_Elems)
    /\ PureCommit([pure EXCEPT !.marked = @ \ {e},
                               !.queue = Append(@, e)])

AN_Deliver ==
    /\ pure.queue # <<>>
    /\ PureCommit(AN_records([pure EXCEPT !.queue = <<>>], pure.queue))

AN_Detect ==
    /\ pure.marked # {}
    /\ PureCommit(AN_detect(pure))

AN_Stop ==
    /\ pure.adElements # {}
    /\ PureCommit(AN_removeAdOverlays(pure))

NextAN ==
    \/ \E e \in AN_Elems : AN_PageMark(e)
    \/ \E e \in AN_Elems : AN_PageUnmark(e)
    \/ AN_Deliver
    \/ AN_Detect
    \/ AN_Stop

SpecAN == InitAN /\ [][NextAN]_vars

RECURSIVE IsAncestor(_, _)
IsAncestor(a, e) ==
    IF parentElement[e] = Body THEN FALSE
    ELSE parentElement[e] = a \/ IsAncestor(a, parentElement[e])

\* C36: in every reachable state of the content script no two adElements
\* entries are in an ancestor-descendant relation.
C36_NoNestedAdElements ==
    \A a \in pure.adElements, e \in pure.adElements : ~IsAncestor(a, e)

(***************************************************************************)
(* createAdDetectionObserver (src/adDetection.js) with the history of its  *)
(* batches: pure.do is the state of the closure, pure.dropped counts the   *)
(* batches adding an element node that returned at the detectionInProgress *)
(* guard since the last run of the callback started, pure.served the       *)
(* dropped batches that a run of the callback has followed. The callback   *)
(* handed to createAdDetectionObserver is a function.                      *)
(***************************************************************************)
MaxDropped == 2        \* batches dropped while one pass is in progress
MaxRuns == 5           \* runs of the callback in a behaviour

InitDB ==
    /\ pure = [do |-> DO_init, observing |-> TRUE, dropped |-> 0, served |-> 0]
    /\ cw = Unused /\ el = Unused /\ timers = Unused /\ mutQueue = Unused
    /\ hist = Unused /\ cs = Unused /\ om = Unused /\ clf = Unused

\* the observer delivers a batch of records
DB_Deliver(newNodesAdded) ==
    /\ pure.observing
    /\ pure.do.passes + pure.do.timeouts < MaxRuns
    /\ LET drops == pure.do.detectionInProgress /\ newNodesAdded
       IN /\ drops => pure.dropped < MaxDropped
          /\ PureCommit([pure EXCEPT
                 !.do = DO_detectionCallback(pure.do, newNodesAdded),
                 !.dropped = IF drops THEN @ + 1 ELSE @])

\* the 100 ms timeout fires: the run of the callback starts
DB_TimeoutFire(throws) ==
    /\ pure.do.timeouts > 0
    /\ PureCommit([pure EXCEPT !.do = DO_timeout(pure.do, throws),
                               !.served = @ + pure.dropped,
                               !.dropped = 0])

\* stopAdDetectionObserver: observer.disconnect()
DB_Stop ==
    /\ pure.observing
    /\ PureCommit([pure EXCEPT !.observing = FALSE])

NextDB ==
    \/ \E newNodesAdded \in BOOLEAN : DB_Deliver(newNodesAdded)
    \/ \E throws \in BOOLEAN : DB_TimeoutFire(throws)
    \/ DB_Stop

SpecDB == InitDB /\ [][NextDB]_vars

\* a timeout that is due fires
SpecDBFair ==
    /\ SpecDB
    /\ WF_vars(\E throws \in BOOLEAN : DB_TimeoutFire(throws))

\* C39: every mutation batch that adds an element node is eventually
\* followed by a run of the detection callback that starts after the batch
\* was delivered, the batches dropped at the detectionInProgress guard
\* included: after the delivery of such a batch a timeout of the callback is
\* pending, a dropped batch always has one pending, and every pending
\* timeout eventually runs the callback.
C39_EveryBatchFollowedByRun ==
    /\ [][DB_Deliver(TRUE) => pure'.do.timeouts > 0]_vars
    /\ [](pure.dropped > 0 => pure.do.timeouts > 0)
    /\ \A n \in 0..MaxRuns :
          (pure.do.timeouts > 0 /\ pure.do.passes = n) ~> (pure.do.passes > n)
    /\ (pure.dropped > 0) ~> (pure.dropped = 0)

\* a run of the callback has followed a dropped batch
C39_Witness ==
    /\ pure.served > 0
    /\ pure.do.passes > 0
    /\ ~pure.do.detectionInProgress

(***************************************************************************)
(* loadConfiguration of the content script (src/unnamed/part_002), one     *)
(* call of it, request by request. pure holds the variables of the script  *)
(* the call touches, the locals of the call (attempts), what is pending    *)
(* (the getStatus request, the retry timeout, the continuation on the      *)
(* filter list promise) and the history of the call: the requests sent,    *)
(* the replies received, the calls of resolve. The browser answers every   *)
(* request: with lastError set ("error"), with the state ("enabled",       *)
(* "disabled") or with a reply without an enabled field ("nofield"). The   *)
(* filter list may be loaded, loading or not requested when the call is    *)
(* made.                                                                   *)
(***************************************************************************)
LC_Replies == {"error", "enabled", "disabled", "nofield"}

LC_init(runtime, isEnabled, filterLoadPromise, cosmeticSelectors) ==
    [runtime |-> runtime,                     \* chrome.runtime.sendMessage exists
     isEnabled |-> isEnabled,
     cosmeticSelectors |-> cosmeticSelectors, \* "none", "parsed", "fallback"
     filterListLoaded |-> filterLoadPromise = "settled",
     filterLoadPromise |-> filterLoadPromise, \* "null", "pending", "settled"
     called |-> FALSE,
     attempts |-> 0,
     inFlight |-> FALSE,                      \* a request awaits its callback
     retry |-> FALSE,                         \* the 300 ms timeout is pending
     waiting |-> FALSE,                       \* loadFilterList().then(resolve)
     waited |-> FALSE,                        \* resolve was called by it
     resolved |-> 0,
     requests |-> 0,
     replies |-> <<>>]

LC_resolve(c) == [c EXCEPT !.resolved = @ + 1]

LC_requestState(c) ==
    [c EXCEPT !.attempts = @ + 1, !.inFlight = TRUE, !.requests = @ + 1,
              !.retry = FALSE]

\* loadFilterList().then(() => resolve())
LC_loadFilterList(c) ==
    IF c.filterLoadPromise = "settled" THEN LC_resolve(c)
    ELSE [c EXCEPT !.filterLoadPromise = "pending", !.waiting = TRUE]

\* a callback that retries after every failed request
LC_retryAlways(c, reply) ==
    IF reply = "error"
    THEN [c EXCEPT !.inFlight = FALSE, !.replies = Append(@, reply),
                   !.retry = TRUE]
    ELSE LC_resolve([c EXCEPT !.inFlight = FALSE,
                              !.replies = Append(@, reply)])

\* the callback of chrome.runtime.sendMessage
LC_callback(c, reply) ==
    LET c1 == [c EXCEPT !.inFlight = FALSE, !.replies = Append(@, reply)]
    IN IF reply = "error"
       THEN IF c1.attempts < maxAttempts
            THEN [c1 EXCEPT !.retry = TRUE]
            ELSE LC_resolve([c1 EXCEPT !.isEnabled = FALSE])
       ELSE IF reply \in {"enabled", "disabled"}
       THEN LET c2 == [c1 EXCEPT !.isEnabled = (reply = "enabled")]
            IN IF c2.isEnabled /\ ~c2.filterListLoaded
               THEN LC_loadFilterList(c2)
               ELSE LC_resolve(c2)
       ELSE LC_resolve([c1 EXCEPT !.isEnabled = FALSE])

LC_loadConfiguration(c) ==
    IF ~c.runtime
    THEN LC_resolve([c EXCEPT !.called = TRUE, !.isEnabled = FALSE])
    ELSE LC_requestState([c EXCEPT !.called = TRUE, !.attempts = 0])

\* the promise of loadFilterList settles: the list was fetched and parsed
\* (ok) or the catch handler installed the fallback selectors; both outcomes
\* set filterListLoaded
LC_filterSettled(c, ok) ==
    LET c1 == [c EXCEPT !.filterLoadPromise = "settled",
                        !.cosmeticSelectors =
                            IF ok THEN "parsed" ELSE "fallback",
                        !.filterListLoaded = TRUE]
    IN IF c1.waiting
       THEN LC_resolve([c1 EXCEPT !.waiting = FALSE, !.waited = TRUE])
       ELSE c1

InitLC ==
    /\ \E runtime \in BOOLEAN, isEnabled \in BOOLEAN,
          filterLoadPromise \in {"null", "pending", "settled"},
          cosmeticSelectors \in {"none", "parsed", "fallback"} :
          /\ filterLoadPromise = "settled" <=> cosmeticSelectors # "none"
          /\ pure = LC_init(runtime, isEnabled, filterLoadPromise,
                            cosmeticSelectors)
    /\ cw = Unused /\ el = Unused /\ timers = Unused /\ mutQueue = Unused
    /\ hist = Unused /\ cs = Unused /\ om = Unused /\ clf = Unused

LC_Call ==
    /\ ~pure.called
    /\ PureCommit(LC_loadConfiguration(pure))

LC_Reply(reply) ==
    /\ pure.inFlight
    /\ PureCommit(LC_callback(pure, reply))

LC_RetryFire ==
    /\ pure.retry
    /\ PureCommit(LC_requestState(pure))

LC_FilterSettle(ok) ==
    /\ pure.filterLoadPromise = "pending"
    /\ PureCommit(LC_filterSettled(pure, ok))

NextLC ==
    \/ LC_Call
    \/ \E reply \in LC_Replies : LC_Reply(reply)
    \/ LC_RetryFire
    \/ \E ok \in BOOLEAN : LC_FilterSettle(ok)

SpecLC == InitLC /\ [][NextLC]_vars

\* the browser answers a request, a timeout that is due fires, the fetch of
\* the filter list settles
SpecLCFair ==
    /\ SpecLC
    /\ WF_vars(\E reply \in LC_Replies : LC_Reply(reply))
    /\ WF_vars(LC_RetryFire)
    /\ WF_vars(\E ok \in BOOLEAN : LC_FilterSettle(ok))

LC_Errors == Len(SelectSeq(pure.replies, LAMBDA r : r = "error"))

LC_LastReply ==
    IF pure.replies = <<>> THEN "none" ELSE pure.replies[Len(pure.replies)]

\* C40: loadConfiguration always resolves, once: it sends at most 3
\* getStatus requests and retries only after a failed request; when all 3
\* requests fail or the reply has no enabled field it resolves with
\* isEnabled false; when the reply says enabled and the filter list is not
\* loaded it resolves only after the filter list load has settled.
C40_LoadConfigurationResolves ==
    /\ pure.called ~> (pure.resolved = 1)
    /\ [](pure.resolved <= 1)
    /\ [](pure.requests <= maxAttempts)
    /\ [](pure.called /\ pure.runtime => pure.requests <= 1 + LC_Errors)
    /\ []((pure.resolved = 1
              /\ (LC_Errors = maxAttempts \/ LC_LastReply = "nofield"))
             => ~pure.isEnabled)
    /\ []((pure.resolved = 1 /\ LC_LastReply = "enabled")
             => pure.filterLoadPromise = "settled")
    /\ [](pure.waiting => pure.resolved = 0)

\* the third request was answered, the filter list had to be loaded, and the
\* call resolved when the load settled
C40_Witness ==
    /\ pure.resolved = 1
    /\ pure.replies = <<"error", "error", "enabled">>
    /\ pure.waited
    /\ pure.isEnabled

====
